---- MODULE Spec2Model ----
(***************************************************************************)
(* CAD ingestion and caching pipeline of cadwave.                          *)
(*                                                                         *)
(*   - LRUCache / GeometryCache   src/src/lib/viewer/cad-pipeline/         *)
(*                                geometry-cache.ts                        *)
(*   - cad-loader                 src/unnamed/part_003 (lines 558-957)     *)
(*                                                                         *)
(* JavaScript runs one continuation at a time: every action below is the   *)
(* code that runs between two suspension points (await) of one call.  A    *)
(* request to the database takes effect in the order it is issued (the     *)
(* database serves its requests first-in first-out), so a request's effect *)
(* is part of the action that issues it and its result is delivered to the *)
(* continuation in a later action.                                         *)
(***************************************************************************)
EXTENDS Integers, Sequences, FiniteSets, TLC

VARIABLES
    mem,          \* GeometryCache.memoryCache : [cache, order] of LRUCache
    used,         \* history: key -> tick of its most recent get()/set()
    tick,         \* history: number of LRUCache calls made so far
    db,           \* GeometryCache.db : "null" or "open"
    initPromise,  \* GeometryCache.initPromise : 0 for null, or the number of a promise
    inits,        \* the doInit() runs started so far: promise number -> position
    store,        \* object store 'assemblies' : assembly id -> record
    now,          \* Date.now()
    tasks,        \* the calls in flight, one record per slot
    calls,        \* number of calls made so far
    faults,       \* number of database requests that have failed so far
    lastSet,      \* history: hash -> id of the assembly of the last set() that resolved
    load,         \* the load invocation: its position, its logs, its outcome
    mtlCache,     \* cad-loader's mtlCache : base file name -> parsed material table
    ev            \* history: what the last action did

vars == <<mem, used, tick, db, initPromise, inits, store, now, tasks, calls, faults, lastSet,
          load, mtlCache, ev>>

----------------------------------------------------------------------------
(* Bounds of the model *)

\* capacity of the LRUCache that SpecLRU exercises
LruCapacity == 2
\* capacity of the memory tier of the GeometryCache (CACHE.LRU_SIZE, scaled)
LRU_SIZE == 1
\* number of LRUCache calls explored by SpecLRU
MaxTick == 5
\* one modelled buffer element stands for a run of BlockElems real elements
BlockElems == 4194304
\* number of calls of the cache in one behaviour
MaxCalls == 3
\* number of database requests that fail in one behaviour
MaxFaults == 1
\* number of load invocations in one behaviour
MaxLoads == 3

(* Program constants *)
MAX_SIZE_BYTES == 500 * 1024 * 1024
TTL_MS == 7 * 24 * 60 * 60 * 1000
MAX_SIZE == 500 * 1024 * 1024

\* one clock step of the model: three days
ClockStep == 3 * 24 * 60 * 60 * 1000
\* the clock starts one step short of the age at which an entry written at
\* time 0 expires, and stops once it has passed that age (TTL_MS)
FirstClock == 2 * ClockStep

----------------------------------------------------------------------------
(* JavaScript values *)

Undefined == [kind |-> "undefined"]
Float32Array(xs) == [kind |-> "Float32Array", data |-> xs]
Uint32Array(xs) == [kind |-> "Uint32Array", data |-> xs]
PlainArray(xs) == [kind |-> "Array", data |-> xs]
JsMap(es) == [kind |-> "Map", entries |-> es]

\* if (x) on a string: the empty string is falsy
Truthy(s) == s /= ""

RECURSIVE SeqSum(_)
SeqSum(s) == IF s = <<>> THEN 0 ELSE Head(s) + SeqSum(Tail(s))

SeqMap(Op(_), s) == [i \in 1..Len(s) |-> Op(s[i])]

Without(s, k) == SelectSeq(s, LAMBDA x : x /= k)

Range(s) == {s[i] : i \in 1..Len(s)}

\* Math.fround on a whole number: exact up to 2^24, beyond it rounded to the
\* float32 grid (spacing 2 up to 2^25, ties to even)
Fround(x) ==
    LET a == IF x < 0 THEN -x ELSE x
        r == IF a <= 16777216 THEN a
             ELSE IF a % 2 = 0 THEN a
             ELSE IF ((a + 1) \div 2) % 2 = 0 THEN a + 1 ELSE a - 1
    IN IF x < 0 THEN -r ELSE r

\* ToUint32 on a whole number: the identity on 0 .. 2^31 - 1, the range of
\* the model's numbers; a negative number wraps to a large positive one
\* (2^32 + x, which the model's 32-bit integers hold as 2^31 + x)
ToUint32(x) == IF x >= 0 THEN x ELSE (2147483647 + x) + 1

----------------------------------------------------------------------------
(* Assemblies (CADAssembly, CADPart, CADGeometry of types.ts), with the     *)
(* fields the cache and the loader read.                                    *)

\* characters of JSON.stringify of one part, and of a metadata object
PartJsonChars == 300
MetaJsonChars == 40

NoAssembly == [id |-> "null"]

\* new Float32Array(numbers), new Uint32Array(numbers): element conversion
NewFloat32Array(xs) == Float32Array(SeqMap(Fround, xs))
NewUint32Array(xs) == Uint32Array(SeqMap(ToUint32, xs))

\* Array.from(typedArray)
ArrayFrom(ta) == PlainArray(ta.data)

\* a geometry of k vertex runs, as a parser builds it
MkGeometry(gid, k, withUvs) ==
    [ id |-> gid,
      positions |-> NewFloat32Array([i \in 1..(3 * k) |->
                        IF i % 3 = 0 THEN 16777217 ELSE IF i % 3 = 1 THEN -i ELSE i]),
      normals |-> NewFloat32Array([i \in 1..(3 * k) |-> IF i % 3 = 0 THEN 1 ELSE 0]),
      indices |-> NewUint32Array([i \in 1..(3 * k) |-> i - 1]),
      uvs |-> IF withUvs THEN NewFloat32Array([i \in 1..(2 * k) |-> i % 2])
              ELSE Undefined,
      triangleCount |-> k,
      hasBVH |-> FALSE ]

MkPart(pid, nm, gid) ==
    [ id |-> pid, name |-> nm, parentId |-> "null", geometryId |-> gid,
      visible |-> TRUE, selected |-> FALSE ]

MkAssembly(aid, nm, fmt, k, withUvs) ==
    [ id |-> aid,
      name |-> nm,
      format |-> fmt,
      parts |-> <<MkPart("p-" \o aid, nm, "g-" \o aid)>>,
      geometries |-> JsMap(<< <<"g-" \o aid, MkGeometry("g-" \o aid, k, withUvs)>> >>),
      rootPartIds |-> <<"p-" \o aid>>,
      totalTriangles |-> k,
      metadata |-> [fileName |-> nm \o "." \o fmt] ]

\* the assemblies handed to GeometryCache.set: three that fit the durable
\* tier together (one with texture coordinates), and one whose own estimate
\* is above MAX_SIZE_BYTES
Assemblies ==
    { MkAssembly("a1", "bolt", "stl", 1, FALSE),
      MkAssembly("a2", "gear", "obj", 1, TRUE),
      MkAssembly("a3", "nut", "stl", 1, FALSE),
      MkAssembly("a4", "hull", "stl", 4, FALSE) }

AssemblyIds == {a.id : a \in Assemblies}

----------------------------------------------------------------------------
(* Serialization helpers, geometry-cache.ts 302-352 *)

serializeGeometry(geometry) ==
    [ geometry EXCEPT
        !.positions = ArrayFrom(geometry.positions),
        !.normals = ArrayFrom(geometry.normals),
        !.indices = ArrayFrom(geometry.indices),
        !.uvs = IF geometry.uvs /= Undefined THEN ArrayFrom(geometry.uvs)
                ELSE Undefined ]

serializeAssembly(assembly) ==
    [ assembly EXCEPT
        !.geometries = PlainArray(SeqMap(
            LAMBDA e : <<e[1], serializeGeometry(e[2])>>,
            assembly.geometries.entries)) ]

deserializeGeometry(data) ==
    [ data EXCEPT
        !.positions = NewFloat32Array(data.positions.data),
        !.normals = NewFloat32Array(data.normals.data),
        !.indices = NewUint32Array(data.indices.data),
        !.uvs = IF data.uvs /= Undefined THEN NewFloat32Array(data.uvs.data)
                ELSE Undefined ]

\* a deserializeAssembly that restores an empty geometry lookup
deserializeAssembly_NoGeometries(data) == [data EXCEPT !.geometries = JsMap(<<>>)]

deserializeAssembly(data) ==
    [ data EXCEPT
        !.geometries = JsMap(SeqMap(
            LAMBDA e : <<e[1], deserializeGeometry(e[2])>>,
            data.geometries.data)) ]

\* .length of a serialized buffer
BufLength(arr) == Len(arr.data) * BlockElems

GeomBytes(geom) ==
    BufLength(geom.positions) * 4
    + BufLength(geom.normals) * 4
    + BufLength(geom.indices) * 4
    + (IF geom.uvs /= Undefined THEN BufLength(geom.uvs) * 4 ELSE 0)

estimateSize(assembly) ==
    (2 + Len(assembly.parts) * PartJsonChars) * 2
    + MetaJsonChars * 2
    + SeqSum(SeqMap(LAMBDA e : GeomBytes(e[2]), assembly.geometries.data))


----------------------------------------------------------------------------
(* LRUCache, geometry-cache.ts 49-98.  A cache is [cache, order]: the Map   *)
(* as a function on the keys it holds, and the recency list.                *)

\* the content hashes the cache is addressed with: hashFile returns a
\* digest in hexadecimal, which is never the empty string
HashPool == <<"h1", "h2", "h3", "h4", "h5", "h6">>
Hashes == {HashPool[i] : i \in 1..(LRU_SIZE + 1)}
LruKeys == {HashPool[i] : i \in 1..(LruCapacity + 2)}

\* new LRUCache(maxSize)
NewLRU(maxSize) == [cache |-> <<>>, order |-> <<>>, maxSize |-> maxSize]

LRU_has(m, key) == key \in DOMAIN m.cache

\* the value get() returns, NoAssembly standing for undefined
LRU_value(m, key) == IF key \in DOMAIN m.cache THEN m.cache[key] ELSE NoAssembly

\* Map.set and Map.delete
MapSet(c, key, value) == [k \in DOMAIN c \cup {key} |-> IF k = key THEN value ELSE c[k]]
MapDelete(c, key) == [k \in DOMAIN c \ {key} |-> c[k]]

\* order.filter(k => k !== key); order.push(key)
MoveToEnd(order, key) == Append(Without(order, key), key)

\* a get() that leaves the recency order alone: C1 must tell it from get()
LRU_get_NoTouch(m, key) == m

\* the cache after get(key)
LRU_get(m, key) ==
    IF LRU_value(m, key) /= NoAssembly
    THEN [m EXCEPT !.order = MoveToEnd(m.order, key)]
    ELSE m

\* while (this.order.length >= this.maxSize) { shift; if (oldest) delete }
RECURSIVE LRU_evict(_)
LRU_evict(m) ==
    IF Len(m.order) >= m.maxSize
    THEN LET oldest == Head(m.order)
         IN LRU_evict([m EXCEPT
                !.cache = IF Truthy(oldest) THEN MapDelete(m.cache, oldest) ELSE m.cache,
                !.order = Tail(m.order)])
    ELSE m

\* the cache after set(key, value)
LRU_set(m, key, value) ==
    IF LRU_has(m, key)
    THEN [m EXCEPT !.cache = MapSet(m.cache, key, value),
                   !.order = MoveToEnd(m.order, key)]
    ELSE LET e == LRU_evict(m)
         IN [e EXCEPT !.cache = MapSet(e.cache, key, value),
                      !.order = Append(e.order, key)]

\* a delete() that forgets the value and keeps the key in the recency list
LRU_delete_KeepOrder(m, key) == [m EXCEPT !.cache = MapDelete(m.cache, key)]

LRU_delete(m, key) ==
    [m EXCEPT !.cache = MapDelete(m.cache, key), !.order = Without(m.order, key)]

LRU_clear(m) == [m EXCEPT !.cache = <<>>, !.order = <<>>]


----------------------------------------------------------------------------
(* The frame of a load invocation *)

\* a file name is the sequence of its pieces: the separators ".", "/" and
\* "\\", and the runs of other characters between them; `base.ext`, or `base`
\* alone when ext is ""
FileName(base, ext) == IF ext = "" THEN <<base>> ELSE <<base, ".", ext>>

\* the name `fileName` under the directory `dir`
InDir(dir, fileName) == dir \o <<"/">> \o fileName

\* String.prototype.lastIndexOf for the separators in `chars`: the position
\* of the last of them, counted from 1, and 0 for the -1 of JavaScript
lastIndexOf(str, chars) ==
    LET at == {i \in 1..Len(str) : str[i] \in chars}
    IN IF at = {} THEN 0 ELSE CHOOSE i \in at : \A j \in at : j <= i

\* the string that the pieces spell
RECURSIVE Join(_)
Join(str) == IF str = <<>> THEN "" ELSE Head(str) \o Join(Tail(str))

\* String.prototype.slice(from) with `from` counted from 0
sliceFrom(str, from) == SubSeq(str, from + 1, Len(str))

\* a File: its name, its size in bytes and its bytes (a content id)
MkFile(base, ext, size, bytes) ==
    [name |-> FileName(base, ext), size |-> size, bytes |-> bytes]

NoFile == [name |-> FileName("", ""), size |-> 0, bytes |-> "none"]

NoError == [kind |-> "none"]

NoMTL == [kind |-> "null"]

\* useState<LoadingProgress | null>(null): nothing is shown
NoProgress == [stage |-> "null"]

\* the frame of an invocation through `entry`: the file being loaded, the
\* events passed to onProgress, the stages begun and ended, what was done to
\* which file, and for loadCADFiles the sorted files and the loop index; for
\* an invocation made by handleLoadFile of the viewer (handler): whether it
\* runs the loop over material files (allMTL), the values it has passed to
\* setLoadingProgress (seen), the value of loadingProgress (shown) and the
\* number of pending setTimeout callbacks (timers); and the two cache tiers as
\* they were when the invocation was made (before); for invocations that
\* overlap: the slot of the cache call it awaits, whether the other
\* invocation had called cache.set() when its lookup resolved (sawStore), and
\* its place in the order of the cache.set() calls (stamp)
NewLoad(entry) ==
    [ pc |-> "start", entry |-> entry, file |-> NoFile, hash |-> "", format |-> "",
      total |-> 0, mtlFile |-> NoMTL, events |-> <<>>, stages |-> <<>>, did |-> {},
      result |-> NoAssembly, error |-> NoError, fromCache |-> FALSE,
      sortedFiles |-> <<>>, idx |-> 0, nested |-> FALSE, ended |-> 0,
      handler |-> FALSE, allMTL |-> FALSE, seen |-> <<>>, shown |-> NoProgress,
      timers |-> 0, before |-> [mem |-> mem, store |-> store],
      slot |-> "", sawStore |-> "", stamp |-> 0 ]

\* no load has been started
IdleLoad ==
    [NewLoad("none") EXCEPT !.pc = "idle", !.before = [mem |-> <<>>, store |-> <<>>]]

----------------------------------------------------------------------------
(* The memory tier on its own: any sequence of LRUCache calls. *)

NoTasks == <<>>

InitLRU ==
    /\ mem = NewLRU(LruCapacity)
    /\ used = [k \in LruKeys |-> 0]
    /\ tick = 0
    /\ db = "null"
    /\ initPromise = 0
    /\ inits = <<>>
    /\ store = <<>>
    /\ now = 0
    /\ tasks = NoTasks
    /\ calls = 0
    /\ faults = 0
    /\ lastSet = <<>>
    /\ load = IdleLoad
    /\ mtlCache = <<>>
    /\ ev = [op |-> "init"]

restLRU == <<db, initPromise, inits, store, now, tasks, calls, faults, lastSet, load, mtlCache>>

LruGet(key) ==
    /\ tick < MaxTick
    /\ mem' = LRU_get(mem, key)
    /\ tick' = tick + 1
    /\ used' = IF LRU_has(mem, key) THEN [used EXCEPT ![key] = tick'] ELSE used
    /\ ev' = [op |-> "lru.get", key |-> key, value |-> LRU_value(mem, key)]
    /\ UNCHANGED restLRU

LruSet(key, value) ==
    /\ tick < MaxTick
    /\ mem' = LRU_set(mem, key, value)
    /\ tick' = tick + 1
    /\ used' = [used EXCEPT ![key] = tick']
    /\ ev' = [op |-> "lru.set", key |-> key, value |-> value]
    /\ UNCHANGED restLRU

\* has(key) reads the map and changes nothing
LruHas(key) ==
    /\ tick < MaxTick
    /\ mem' = mem
    /\ tick' = tick + 1
    /\ ev' = [op |-> "lru.has", key |-> key, held |-> LRU_has(mem, key)]
    /\ UNCHANGED <<used, restLRU>>

LruDelete(key) ==
    /\ tick < MaxTick
    /\ mem' = LRU_delete(mem, key)
    /\ tick' = tick + 1
    /\ ev' = [op |-> "lru.delete", key |-> key]
    /\ UNCHANGED <<used, restLRU>>

LruClear ==
    /\ tick < MaxTick
    /\ mem' = LRU_clear(mem)
    /\ tick' = tick + 1
    /\ ev' = [op |-> "lru.clear"]
    /\ UNCHANGED <<used, restLRU>>

\* the values SpecLRU stores
LruValues == {a \in Assemblies : a.id \in {"a1", "a2"}}

NextLRU ==
    \/ \E key \in LruKeys : LruGet(key)
    \/ \E key \in LruKeys, value \in LruValues : LruSet(key, value)
    \/ \E key \in LruKeys : LruHas(key)
    \/ \E key \in LruKeys : LruDelete(key)
    \/ LruClear

SpecLRU == InitLRU /\ [][NextLRU]_vars

\* the held keys whose most recent get() or set() is the oldest
LeastRecentlyUsed(m, u) ==
    {k \in DOMAIN m.cache : \A o \in DOMAIN m.cache : u[k] <= u[o]}

\* C1: a set() of an absent key while maxSize entries are held evicts exactly
\* one entry, the one whose most recent get() or set() is the oldest; a get()
\* of a held key makes it the most recently used, so that it is not the entry
\* the next eviction takes.
C1_EvictsLeastRecentlyUsed ==
    [][ /\ ( /\ ev'.op = "lru.set"
             /\ ~LRU_has(mem, ev'.key)
             /\ Cardinality(DOMAIN mem.cache) = mem.maxSize )
           => \E victim \in LeastRecentlyUsed(mem, used) :
                 /\ LeastRecentlyUsed(mem, used) = {victim}
                 /\ DOMAIN mem'.cache = (DOMAIN mem.cache \ {victim}) \cup {ev'.key}
                 /\ \A k \in DOMAIN mem.cache \ {victim} : mem'.cache[k] = mem.cache[k]
                 /\ (ev.op = "lru.get" /\ ev.value /= NoAssembly /\ mem.maxSize > 1
                        => victim /= ev.key)
        /\ ( ev'.op = "lru.get" /\ LRU_has(mem, ev'.key) )
           => /\ mem'.order[Len(mem'.order)] = ev'.key
              /\ mem'.cache = mem.cache
      ]_vars

\* an eviction has just taken the least recently used key, right after a
\* get() had refreshed another held key
C1_Witness ==
    /\ ev.op = "lru.set"
    /\ Cardinality(DOMAIN mem.cache) = mem.maxSize
    /\ \E k \in LruKeys : k \notin DOMAIN mem.cache /\ used[k] > 0
                          /\ \A o \in DOMAIN mem.cache : used[k] < used[o]
    /\ \E k \in DOMAIN mem.cache : k /= ev.key /\ used[k] = tick - 1


----------------------------------------------------------------------------
(* GeometryCache, geometry-cache.ts 104-296 *)

\* the calls that can be in flight at the same time
Slots == {"t1", "t2"}

IdleTask == [op |-> "idle"]
NoEntry == [id |-> "undefined"]

\* key order of the object store (keyPath 'id')
IdOrder == <<"a1", "a2", "a3", "a4", "a5", "a6", "a7", "a8">>

\* a cache whose get() lacks the try block around its read: C6 must tell it
\* from the code
Caught_ExceptRead(site) ==
    site \in {"openDB", "sweep", "space.getAll", "space.delete", "put", "clear"}

\* the awaited database requests that lie inside a try block whose catch
\* only logs: 121-134, 245-260, 175-186, 269-284, 202-218, 230-234
Caught(site) ==
    site \in {"openDB", "sweep", "get.getAll", "space.getAll", "space.delete",
              "put", "clear"}

\* db.getAll('assemblies'): the records in key order
getAll(st) ==
    LET ids == SelectSeq(IdOrder, LAMBDA i : i \in DOMAIN st)
    IN [n \in 1..Len(ids) |-> st[ids[n]]]

\* entries.find(e => e.hash === hash)
find(entries, hash) ==
    LET m == SelectSeq(entries, LAMBDA e : e.hash = hash)
    IN IF m = <<>> THEN NoEntry ELSE Head(m)

\* entries.sort((a, b) => a.timestamp - b.timestamp), a stable sort
RECURSIVE sortByTimestamp(_)
sortByTimestamp(entries) ==
    IF entries = <<>> THEN <<>>
    ELSE LET n == Len(entries)
             e == entries[n]
             sorted == sortByTimestamp(SubSeq(entries, 1, n - 1))
         IN SelectSeq(sorted, LAMBDA x : x.timestamp <= e.timestamp)
            \o <<e>>
            \o SelectSeq(sorted, LAMBDA x : x.timestamp > e.timestamp)

\* entries.reduce((sum, e) => sum + e.size, 0)
sumSizes(entries) == SeqSum(SeqMap(LAMBDA e : e.size, entries))

\* a sweep that empties the store: C16 must tell it from the code
cleanupExpired_All(st, time) == <<>>

\* a sweep that deletes nothing: C19 must tell it from the code
cleanupExpired_None(st, time) == st

\* the effect of cleanupExpired's transaction, 243-257
cleanupExpired(st, time) ==
    LET expiry == time - TTL_MS
        keep == {i \in DOMAIN st : ~(st[i].timestamp < expiry)}
    IN [i \in keep |-> st[i]]

\* the record set() puts, 209-215
putRecord(hash, assembly, time) ==
    [ id |-> assembly.id,
      hash |-> hash,
      assembly |-> serializeAssembly(assembly),
      timestamp |-> time,
      size |-> estimateSize(serializeAssembly(assembly)) ]

\* db.put('assemblies', record): the store is keyed by the record's id
put(st, record) == MapSet(st, record.id, record)

\* while (totalSize + requiredSize > CACHE.MAX_SIZE_BYTES && entries.length > 0)
\* (the sum is compared as a difference: the numbers of the code are doubles,
\* and the sum of two sizes can pass the largest integer TLC computes with)
needsRoom(totalSize, requiredSize, entries) ==
    totalSize > MAX_SIZE_BYTES - requiredSize /\ Len(entries) > 0

\* init(), 112-118: the promise the caller awaits (0: nothing to wait for),
\* the new value of initPromise and the doInit() runs
initAwaited ==
    IF db = "open" THEN 0
    ELSE IF initPromise /= 0 THEN initPromise
    ELSE Len(inits) + 1

initStarted ==
    IF db /= "open" /\ initPromise = 0 THEN Append(inits, "opening") ELSE inits

initCalled ==
    /\ initPromise' = (IF db = "open" THEN initPromise ELSE initAwaited)
    /\ inits' = initStarted

Settled(p) == IF p = 0 THEN TRUE ELSE inits[p] \in {"settled", "rejected"}

Resolve(t) == tasks' = [tasks EXCEPT ![t] = IdleTask]

\* a new call takes the first free slot
SlotOrder == <<"t1", "t2">>
FreeSlot(t) ==
    /\ tasks[t] = IdleTask
    /\ \A i, j \in 1..Len(SlotOrder) :
          (SlotOrder[j] = t /\ i < j) => tasks[SlotOrder[i]] /= IdleTask

cacheHist == <<used, tick, lastSet, load, mtlCache>>

\* a database request succeeds, or fails
Outcomes == IF faults < MaxFaults THEN BOOLEAN ELSE {TRUE}
Settles(ok) == faults' = IF ok THEN faults ELSE faults + 1

\* a call is made
Called == calls < MaxCalls /\ calls' = calls + 1

\* get(hash), 165-172: the memory tier first, then init()
GeometryCache_get(t, hash) ==
    /\ FreeSlot(t)
    /\ IF LRU_has(mem, hash)
       THEN /\ mem' = LRU_get(mem, hash)
            /\ ev' = [op |-> "get.return", hash |-> hash, from |-> "memory",
                      failed |-> FALSE, result |-> LRU_value(mem, hash)]
            /\ UNCHANGED <<tasks, initPromise, inits>>
       ELSE /\ initCalled
            /\ tasks' = [tasks EXCEPT ![t] =
                   [op |-> "get", pc |-> "init", hash |-> hash, awaiting |-> initAwaited]]
            /\ ev' = [op |-> "get.miss", hash |-> hash]
            /\ mem' = mem
    /\ UNCHANGED <<db, store, now, faults, used, tick, lastSet>>

\* a caller other than the loader calls get(hash)
CallGet(t, hash) ==
    /\ Called
    /\ GeometryCache_get(t, hash)
    /\ UNCHANGED <<load, mtlCache>>

\* a set() that skips the memory tier: C4 must tell it from set()
storeInMemory_Skip(m, hash, assembly) == m

\* a set() that keeps the assembly the memory tier already holds: C17 must
\* tell it from set()
storeInMemory_KeepFirst(m, hash, assembly) ==
    IF LRU_has(m, hash) THEN m ELSE LRU_set(m, hash, assembly)

\* set(), 196: this.memoryCache.set(hash, assembly)
storeInMemory(m, hash, assembly) == LRU_set(m, hash, assembly)

\* set(hash, assembly), 194-199: the memory tier, then init()
GeometryCache_set(t, hash, assembly) ==
    /\ FreeSlot(t)
    /\ mem' = storeInMemory(mem, hash, assembly)
    /\ initCalled
    /\ tasks' = [tasks EXCEPT ![t] =
           [op |-> "set", pc |-> "init", hash |-> hash, assembly |-> assembly,
            awaiting |-> initAwaited]]
    /\ ev' = [op |-> "set.call", hash |-> hash, assembly |-> assembly]
    /\ UNCHANGED <<db, store, now, faults, used, tick, lastSet>>

\* a caller other than the loader calls set(hash, assembly)
CallSet(t, hash, assembly) ==
    /\ Called
    /\ GeometryCache_set(t, hash, assembly)
    /\ UNCHANGED <<load, mtlCache>>

\* clear(), 224-227: the memory tier, then init()
GeometryCache_clear(t) ==
    /\ FreeSlot(t)
    /\ mem' = LRU_clear(mem)
    /\ initCalled
    /\ tasks' = [tasks EXCEPT ![t] = [op |-> "clear", pc |-> "init", awaiting |-> initAwaited]]
    /\ ev' = [op |-> "clear.call"]
    /\ UNCHANGED <<db, store, now, faults, used, tick, lastSet>>

\* a caller calls clear()
CallClear(t) ==
    /\ Called
    /\ GeometryCache_clear(t)
    /\ UNCHANGED <<load, mtlCache>>

\* doInit(), 120-135: openDB resolved; cleanupExpired() starts its transaction
OpenDBResolved(p, sweepOk) ==
    /\ p \in DOMAIN inits
    /\ inits[p] = "opening"
    /\ db' = "open"
    /\ Settles(sweepOk)
    /\ store' = IF sweepOk THEN cleanupExpired(store, now) ELSE store
    /\ inits' = [inits EXCEPT ![p] =
                    IF sweepOk \/ Caught("sweep") THEN "sweeping" ELSE "rejected"]
    /\ ev' = [op |-> "init.open", ok |-> sweepOk]
    /\ UNCHANGED <<mem, initPromise, now, tasks, calls, cacheHist>>

\* doInit(), 131-134: openDB rejected
OpenDBRejected(p) ==
    /\ p \in DOMAIN inits
    /\ inits[p] = "opening"
    /\ faults < MaxFaults
    /\ Settles(FALSE)
    /\ inits' = [inits EXCEPT ![p] = IF Caught("openDB") THEN "settled" ELSE "rejected"]
    /\ ev' = [op |-> "init.failed"]
    /\ UNCHANGED <<mem, db, initPromise, store, now, tasks, calls, cacheHist>>

\* doInit(): cleanupExpired() returned
SweepDone(p) ==
    /\ p \in DOMAIN inits
    /\ inits[p] = "sweeping"
    /\ inits' = [inits EXCEPT ![p] = "settled"]
    /\ ev' = [op |-> "init.done"]
    /\ UNCHANGED <<mem, db, initPromise, store, now, tasks, calls, faults, cacheHist>>


InitDone(t, op) ==
    /\ tasks[t] /= IdleTask
    /\ tasks[t].op = op
    /\ tasks[t].pc = "init"
    /\ Settled(tasks[t].awaiting)

InitRejected(t) ==
    IF tasks[t].awaiting = 0 THEN FALSE ELSE inits[tasks[t].awaiting] = "rejected"

\* an ensureSpace() that does not sort what getAll() returned: C18 must tell
\* it from the code
spaceEntries_Unsorted(st) ==
    SeqMap(LAMBDA e : [id |-> e.id, size |-> e.size, timestamp |-> e.timestamp],
           getAll(st))

\* the entries ensureSpace() reads, with the fields it uses
spaceEntries(st) ==
    sortByTimestamp(SeqMap(
        LAMBDA e : [id |-> e.id, size |-> e.size, timestamp |-> e.timestamp],
        getAll(st)))

\* get(), 173-176: after init(), the read of the durable tier is issued
GetAfterInit(t) ==
    /\ InitDone(t, "get")
    /\ IF InitRejected(t)
       THEN /\ ev' = [op |-> "get.reject"]
            /\ Resolve(t)
            /\ faults' = faults
       ELSE IF db /= "open"
       THEN /\ ev' = [op |-> "get.return", hash |-> tasks[t].hash, from |-> "none",
                      failed |-> TRUE, result |-> NoAssembly]
            /\ Resolve(t)
            /\ faults' = faults
       ELSE \E ok \in Outcomes :
            /\ Settles(ok)
            /\ tasks' = [tasks EXCEPT ![t] =
                   [op |-> "get", pc |-> "read", hash |-> tasks[t].hash, ok |-> ok,
                    entry |-> IF ok THEN find(getAll(store), tasks[t].hash)
                              ELSE NoEntry]]
            /\ ev' = [op |-> "get.getAll", hash |-> tasks[t].hash]
    /\ UNCHANGED <<mem, db, initPromise, inits, store, now, calls, cacheHist>>

\* a get() that does not promote a durable hit: C5 must tell it from get()
promote_Skip(m, hash, assembly) == m

\* get(), 181: this.memoryCache.set(hash, assembly)
promote(m, hash, assembly) == LRU_set(m, hash, assembly)

\* get(), 177-188: the entries arrived, or the read failed
GetRead(t) ==
    /\ tasks[t] /= IdleTask
    /\ tasks[t].op = "get"
    /\ tasks[t].pc = "read"
    /\ IF ~tasks[t].ok /\ ~Caught("get.getAll")
       THEN /\ ev' = [op |-> "get.reject"]
            /\ mem' = mem
       ELSE IF tasks[t].ok /\ tasks[t].entry /= NoEntry
       THEN LET assembly == deserializeAssembly(tasks[t].entry.assembly)
            IN /\ mem' = promote(mem, tasks[t].hash, assembly)
               /\ ev' = [op |-> "get.return", hash |-> tasks[t].hash, from |-> "durable",
                         failed |-> FALSE, result |-> assembly]
       ELSE /\ ev' = [op |-> "get.return", hash |-> tasks[t].hash, from |-> "none",
                      failed |-> ~tasks[t].ok, result |-> NoAssembly]
            /\ mem' = mem
    /\ Resolve(t)
    /\ UNCHANGED <<db, initPromise, inits, store, now, calls, faults, cacheHist>>

\* what set() has done when it resolves
SetReturn(t, durable) ==
    /\ ev' = [op |-> "set.return", hash |-> tasks[t].hash,
              assembly |-> tasks[t].assembly, durable |-> durable]
    /\ lastSet' = [lastSet EXCEPT ![tasks[t].hash] = tasks[t].assembly.id]
    /\ Resolve(t)

\* set(), 200-207 and ensureSpace(), 266-271: after init(), the size is
\* estimated and ensureSpace() issues its read
SetAfterInit(t) ==
    /\ InitDone(t, "set")
    /\ IF InitRejected(t)
       THEN /\ ev' = [op |-> "set.reject"]
            /\ Resolve(t)
            /\ faults' = faults
            /\ lastSet' = lastSet
       ELSE IF db /= "open"
       THEN SetReturn(t, "unavailable") /\ faults' = faults
       ELSE \E ok \in Outcomes :
            /\ Settles(ok)
            /\ tasks' = [tasks EXCEPT ![t] =
                   [op |-> "set", pc |-> "space", hash |-> tasks[t].hash,
                    assembly |-> tasks[t].assembly,
                    size |-> estimateSize(serializeAssembly(tasks[t].assembly)),
                    ok |-> ok, site |-> "space.getAll",
                    entries |-> IF ok THEN spaceEntries(store) ELSE <<>>,
                    totalSize |-> IF ok THEN sumSizes(getAll(store)) ELSE 0]]
            /\ ev' = [op |-> "set.getAll"]
            /\ lastSet' = lastSet
    /\ UNCHANGED <<mem, db, initPromise, inits, store, now, calls, used, tick, load, mtlCache>>

\* ensureSpace(), 277-284, and set(), 209-215: the loop deletes the oldest
\* entry, or ensureSpace() returns and set() issues the put
SetSpace(t) ==
    /\ tasks[t] /= IdleTask
    /\ tasks[t].op = "set"
    /\ tasks[t].pc = "space"
    /\ LET c == tasks[t] IN
       IF ~c.ok /\ ~Caught(c.site)
       THEN /\ ev' = [op |-> "set.reject"]
            /\ Resolve(t)
            /\ faults' = faults
            /\ store' = store
       ELSE IF c.ok /\ needsRoom(c.totalSize, c.size, c.entries)
       THEN \E ok \in Outcomes :
            LET oldest == Head(c.entries) IN
            /\ Settles(ok)
            /\ store' = IF ok THEN MapDelete(store, oldest.id) ELSE store
            /\ tasks' = [tasks EXCEPT ![t] =
                   [c EXCEPT !.entries = Tail(c.entries),
                             !.totalSize = IF ok THEN c.totalSize - oldest.size
                                           ELSE c.totalSize,
                             !.ok = ok, !.site = "space.delete"]]
            /\ ev' = [op |-> "set.delete", id |-> oldest.id, ok |-> ok,
                      timestamp |-> oldest.timestamp, slot |-> t,
                      requiredSize |-> c.size]
       ELSE \E ok \in Outcomes :
            /\ Settles(ok)
            /\ store' = IF ok THEN put(store, putRecord(c.hash, c.assembly, now))
                        ELSE store
            /\ tasks' = [tasks EXCEPT ![t] =
                   [op |-> "set", pc |-> "put", hash |-> c.hash,
                    assembly |-> c.assembly, ok |-> ok]]
            /\ ev' = [op |-> "set.put", hash |-> c.hash,
                      assembly |-> c.assembly, ok |-> ok]
    /\ UNCHANGED <<mem, db, initPromise, inits, now, calls, cacheHist>>

\* set(), 216-219: the put settled
SetPut(t) ==
    /\ tasks[t] /= IdleTask
    /\ tasks[t].op = "set"
    /\ tasks[t].pc = "put"
    /\ IF ~tasks[t].ok /\ ~Caught("put")
       THEN /\ ev' = [op |-> "set.reject"]
            /\ Resolve(t)
            /\ lastSet' = lastSet
       ELSE SetReturn(t, IF tasks[t].ok THEN "written" ELSE "failed")
    /\ UNCHANGED <<mem, db, initPromise, inits, store, now, calls, faults, used, tick, load, mtlCache>>

\* clear(), 228-231: after init(), the store is cleared
ClearAfterInit(t) ==
    /\ InitDone(t, "clear")
    /\ IF InitRejected(t)
       THEN /\ ev' = [op |-> "clear.reject"]
            /\ Resolve(t)
            /\ faults' = faults
            /\ store' = store
       ELSE IF db /= "open"
       THEN /\ ev' = [op |-> "clear.return"]
            /\ Resolve(t)
            /\ faults' = faults
            /\ store' = store
       ELSE \E ok \in Outcomes :
            /\ Settles(ok)
            /\ store' = IF ok THEN <<>> ELSE store
            /\ tasks' = [tasks EXCEPT ![t] = [op |-> "clear", pc |-> "wait", ok |-> ok]]
            /\ ev' = [op |-> "clear.issue", ok |-> ok]
    /\ UNCHANGED <<mem, db, initPromise, inits, now, calls, cacheHist>>

\* clear(), 232-235
ClearDone(t) ==
    /\ tasks[t] /= IdleTask
    /\ tasks[t].op = "clear"
    /\ tasks[t].pc = "wait"
    /\ ev' = [op |-> IF ~tasks[t].ok /\ ~Caught("clear") THEN "clear.reject"
                     ELSE "clear.return"]
    /\ Resolve(t)
    /\ UNCHANGED <<mem, db, initPromise, inits, store, now, calls, faults, cacheHist>>

\* time passes
Tick ==
    /\ now < TTL_MS
    /\ now' = now + ClockStep
    /\ ev' = [op |-> "tick"]
    /\ UNCHANGED <<mem, db, initPromise, inits, store, tasks, calls, faults, cacheHist>>

\* what an earlier session may have left in the database: nothing, or one
\* entry written at time 0
InitialStores ==
    { <<>>,
      [i \in {"a1"} |-> putRecord("h1", CHOOSE a \in Assemblies : a.id = "a1", 0)] }

Init ==
    /\ mem = NewLRU(LRU_SIZE)
    /\ used = [k \in LruKeys |-> 0]
    /\ tick = 0
    /\ db = "null"
    /\ initPromise = 0
    /\ inits = <<>>
    /\ store \in InitialStores
    /\ now = FirstClock
    /\ tasks = [t \in Slots |-> IdleTask]
    /\ calls = 0
    /\ faults = 0
    /\ lastSet = [h \in Hashes |-> "none"]
    /\ load = IdleLoad
    /\ mtlCache = <<>>
    /\ ev = [op |-> "init"]

\* the steps of the calls that run in the slots S
NextIn(S) ==
    \/ \E t \in S, hash \in Hashes : CallGet(t, hash)
    \/ \E t \in S, hash \in Hashes, assembly \in Assemblies : CallSet(t, hash, assembly)
    \/ \E t \in S : CallClear(t)
    \/ \E p \in DOMAIN inits, sweepOk \in Outcomes : OpenDBResolved(p, sweepOk)
    \/ \E p \in DOMAIN inits : OpenDBRejected(p)
    \/ \E p \in DOMAIN inits : SweepDone(p)
    \/ \E t \in S : GetAfterInit(t)
    \/ \E t \in S : GetRead(t)
    \/ \E t \in S : SetAfterInit(t)
    \/ \E t \in S : SetSpace(t)
    \/ \E t \in S : SetPut(t)
    \/ \E t \in S : ClearAfterInit(t)
    \/ \E t \in S : ClearDone(t)
    \/ Tick

\* one call at a time: each call resolves before the next is made
Next == NextIn({"t1"})

Spec == Init /\ [][Next]_vars


----------------------------------------------------------------------------
(* Claims about the GeometryCache *)

\* parts, geometry ids, triangle counts and buffer contents of an assembly
Content(assembly) ==
    [ parts |-> assembly.parts,
      geometries |-> SeqMap(
          LAMBDA e : [id |-> e[1],
                      triangleCount |-> e[2].triangleCount,
                      positions |-> e[2].positions,
                      normals |-> e[2].normals,
                      indices |-> e[2].indices,
                      uvs |-> e[2].uvs],
          assembly.geometries.entries) ]

AssemblyOf(id) == CHOOSE a \in Assemblies : a.id = id

StoredBytes == sumSizes(getAll(store))

\* C2: the sizes of the entries of the durable store add up to at most
\* CACHE.MAX_SIZE_BYTES
C2_DurableSizeBound == StoredBytes <= MAX_SIZE_BYTES

\* C3: when set(h, A) was the last set() of h to resolve and the record it
\* wrote is in the durable store, a get(h) whose reads succeed returns an
\* assembly with the parts, geometry ids, triangle counts and buffers of A
C3_RoundTrip ==
    ( /\ ev.op = "get.return"
      /\ faults = 0
      /\ lastSet[ev.hash] /= "none"
      /\ lastSet[ev.hash] \in DOMAIN store
      /\ store[lastSet[ev.hash]].hash = ev.hash
      /\ store[lastSet[ev.hash]].assembly = serializeAssembly(AssemblyOf(lastSet[ev.hash])) )
    => /\ ev.result /= NoAssembly
       /\ Content(ev.result) = Content(AssemblyOf(lastSet[ev.hash]))

GetCalled(e) == e.op = "get.miss" \/ (e.op = "get.return" /\ e.from = "memory")

\* C5: get(h) reads the durable tier only when the memory tier does not hold
\* h; a hit in the durable tier puts the deserialized assembly into the
\* memory tier under h as the most recently used entry, and a get(h) that
\* follows at once returns that assembly from the memory tier without
\* reading the durable tier
C5_MemoryFirstThenDurable ==
    [][ /\ ev'.op = "get.return" /\ ev'.from = "memory"
           => /\ LRU_has(mem, ev'.hash)
              /\ ev'.result = mem.cache[ev'.hash]
              /\ UNCHANGED <<tasks, db, initPromise, inits, store>>
        /\ ev'.op = "get.miss" => ~LRU_has(mem, ev'.hash)
        /\ ev'.op = "get.getAll" => ~LRU_has(mem, ev'.hash)
        /\ ev'.op = "get.return" /\ ev'.from = "durable"
           => /\ LRU_value(mem', ev'.hash) = ev'.result
              /\ mem'.order[Len(mem'.order)] = ev'.hash
        /\ ( /\ ev.op = "get.return" /\ ev.from = "durable"
             /\ GetCalled(ev') /\ ev'.hash = ev.hash )
           => /\ ev'.op = "get.return"
              /\ ev'.result = ev.result
              /\ UNCHANGED <<tasks, store>>
      ]_vars

\* a get() has been served from the memory tier, which holds an assembly
\* that no set() of this session stored: an earlier get() of the same hash
\* read it from the durable tier
C5_Witness ==
    /\ ev.op = "get.return"
    /\ ev.from = "memory"
    /\ ev.result /= NoAssembly
    /\ lastSet[ev.hash] = "none"

\* C6: no failure of the durable tier makes get(), set() or clear() reject:
\* a get() whose read failed returns null, a set() resolves with the memory
\* tier holding its assembly, and with the database not open a get(h) that
\* follows set(h, A) returns A
C6_FailuresAreNotFatal ==
    [][ /\ ev'.op \notin {"get.reject", "set.reject", "clear.reject"}
        /\ \A p \in DOMAIN inits' : inits'[p] /= "rejected"
        /\ ev'.op = "get.return" /\ ev'.failed => ev'.result = NoAssembly
        /\ ev'.op = "set.return" => LRU_value(mem', ev'.hash) = ev'.assembly
        /\ ( /\ ev.op = "set.return" /\ ev.durable /= "written"
             /\ GetCalled(ev') /\ ev'.hash = ev.hash )
           => /\ ev'.op = "get.return"
              /\ ev'.result = ev.assembly
      ]_vars

\* the database failed to open and a get() was served from the memory tier
C6_Witness ==
    /\ ev.op = "get.return"
    /\ ev.from = "memory"
    /\ db = "null"
    /\ initPromise /= 0
    /\ inits[initPromise] = "settled"

\* a read of the durable tier failed and get() returned null
C6_WitnessReadFailed ==
    /\ ev.op = "get.return"
    /\ ev.failed
    /\ db = "open"


----------------------------------------------------------------------------
(* The material file parser, part_006 40-218 *)

\* String.prototype.toLowerCase on the pieces of the names of the model
toLowerCase(str) ==
    CASE str = "STL" -> "stl"
      [] str = "Stp" -> "stp"
      [] str = "OBJ" -> "obj"
      [] str = "MTL" -> "mtl"
      [] str = "Models" -> "models"
      [] str = "GLB" -> "glb"
      [] str = "SOLID" -> "solid"
      [] str = "Solid" -> "solid"
      [] str = "Ka" -> "ka"
      [] str = "Kd" -> "kd"
      [] str = "Ks" -> "ks"
      [] str = "ISO-10303-21" -> "iso-10303-21"
      [] str = "HEADER;" -> "header;"
      [] OTHER -> str

\* a number of a material file is kept in tenths: 0.5 is 5, 0.8 is 8, 1 is 10
NaN == -1

\* parseFloat on the tokens of the model; NaN for anything else, a missing
\* token (undefined) included
parseFloat(token) ==
    CASE token \in {"0", "0.0"} -> 0
      [] token = "0.5" -> 5
      [] token \in {"1", "1.0"} -> 10
      [] OTHER -> NaN

\* x || dflt for a number x: 0 and NaN are falsy
OrNumber(x, dflt) == IF x = 0 \/ x = NaN THEN dflt ELSE x

\* parts[i] of a split line, i counted from 0; "" stands for undefined
PartAt(parts, i) == IF i + 1 <= Len(parts) THEN parts[i + 1] ELSE ""

NoMaterial == [kind |-> "null"]

\* the three components of a color line, each parseFloat(parts[i]) || dflt
colorOf(parts, dflt) ==
    << OrNumber(parseFloat(PartAt(parts, 1)), dflt),
       OrNumber(parseFloat(PartAt(parts, 2)), dflt),
       OrNumber(parseFloat(PartAt(parts, 3)), dflt) >>

\* materials.set(currentMaterial.name, currentMaterial) when there is one
saved(st) ==
    IF st.currentMaterial = NoMaterial THEN st.materials
    ELSE [n \in DOMAIN st.materials \cup {st.currentMaterial.name} |->
            IF n = st.currentMaterial.name THEN st.currentMaterial
            ELSE st.materials[n]]

\* one pass of the loop over the lines, 48-155: parts is the trimmed line
\* split at white space; a color absent from a material is <<>>
mtlLine(st, parts) ==
    LET cmd == toLowerCase(PartAt(parts, 0))
        current == st.currentMaterial
    IN CASE cmd = "newmtl" ->
              [ materials |-> saved(st),
                currentMaterial |->
                  [ name |-> IF Truthy(PartAt(parts, 1)) THEN PartAt(parts, 1)
                             ELSE "default",
                    ambient |-> <<>>, diffuse |-> <<>>, specular |-> <<>> ] ]
         [] cmd = "ka" /\ current /= NoMaterial ->
              [st EXCEPT !.currentMaterial.ambient = colorOf(parts, 0)]
         [] cmd = "kd" /\ current /= NoMaterial ->
              [st EXCEPT !.currentMaterial.diffuse = colorOf(parts, 8)]
         [] cmd = "ks" /\ current /= NoMaterial ->
              [st EXCEPT !.currentMaterial.specular = colorOf(parts, 0)]
         [] OTHER -> st

RECURSIVE mtlLoop(_, _, _)
mtlLoop(lines, i, st) ==
    IF i > Len(lines) THEN st ELSE mtlLoop(lines, i + 1, mtlLine(st, lines[i]))

\* parseMTL on a text given as its lines: the table of the materials, the
\* last material saved after the loop
parseMTLText(lines) ==
    saved(mtlLoop(lines, 1, [materials |-> <<>>, currentMaterial |-> NoMaterial]))

\* the text of gear.mtl
GearMtlText == << <<"newmtl", "Red">>, <<"Kd", "1", "1", "1">> >>

----------------------------------------------------------------------------
(* The loader: files and what their bytes hold *)

\* what each content holds: the format its first bytes show, the number of
\* lines, triangles or meshes, the number of groups, whether it names a
\* material library, the assembly a parser builds from it, its digest, the
\* material its faces are under (usemtl) and the materials it defines (newmtl;
\* gear.mtl holds "newmtl Red" and "Kd 1 1 1")
Contents ==
    [ bolt    |-> [sniff |-> "stl", count |-> 20, groups |-> 1, mtllib |-> FALSE,
                   assembly |-> "a1", hash |-> "h1", usemtl |-> "", materials |-> <<>>],
      gear    |-> [sniff |-> "obj", count |-> 40, groups |-> 2, mtllib |-> TRUE,
                   assembly |-> "a2", hash |-> "h2", usemtl |-> "Red", materials |-> <<>>],
      gearmtl |-> [sniff |-> "unknown", count |-> 3, groups |-> 0, mtllib |-> FALSE,
                   assembly |-> "none", hash |-> "h3", usemtl |-> "",
                   materials |-> parseMTLText(GearMtlText)],
      hull    |-> [sniff |-> "stl", count |-> 60, groups |-> 1, mtllib |-> FALSE,
                   assembly |-> "a4", hash |-> "h4", usemtl |-> "", materials |-> <<>>],
      pump    |-> [sniff |-> "step", count |-> 2, groups |-> 0, mtllib |-> FALSE,
                   assembly |-> "a3", hash |-> "h5", usemtl |-> "", materials |-> <<>>],
      scene   |-> [sniff |-> "gltf", count |-> 1, groups |-> 0, mtllib |-> FALSE,
                   assembly |-> "none", hash |-> "h6", usemtl |-> "", materials |-> <<>>],
      plate   |-> [sniff |-> "iges", count |-> 1, groups |-> 0, mtllib |-> FALSE,
                   assembly |-> "none", hash |-> "h7", usemtl |-> "", materials |-> <<>>],
      blank   |-> [sniff |-> "step", count |-> 0, groups |-> 0, mtllib |-> FALSE,
                   assembly |-> "none", hash |-> "h8", usemtl |-> "", materials |-> <<>>] ]

bolt == MkFile("bolt", "stl", 4096, "bolt")
gear == MkFile("gear", "obj", 8192, "gear")
gearMtl == MkFile("gear", "mtl", 512, "gearmtl")
hull == MkFile("hull", "STL", MAX_SIZE + 100 * 1024 * 1024, "hull")
pump == MkFile("pump", "stp", 4096, "pump")
scene == MkFile("scene", "glb", 4096, "scene")
plate == MkFile("plate", "", 4096, "plate")
\* Models.v2/gear.mtl: the material file, named with its directory
gearMtlPath == [gearMtl EXCEPT !.name = InDir(<<"Models", ".", "v2">>, @)]
\* a file named mtl, without a dot, that holds the bytes of bolt.stl
mtlNoDot == MkFile("mtl", "", 4096, "bolt")
\* a STEP file without a solid, and the bytes of bolt.stl named as a STEP file
blank == MkFile("blank", "step", 1024, "blank")
fake == MkFile("fake", "Stp", 4096, "bolt")

Files ==
    {bolt, gear, gearMtl, hull, pump, scene, plate, gearMtlPath, mtlNoDot, blank, fake}

\* hashFile(buffer), 140-160: the digest of the bytes
hashFile(bytes) == Contents[bytes].hash

FileHashes == {hashFile(f.bytes) : f \in Files}

\* getExtension(fileName): what follows the last dot of the whole name, in
\* lower case; '' when the name has no dot
getExtension(fileName) ==
    LET lastDot == lastIndexOf(fileName, {"."})
    IN IF lastDot = 0 THEN ""
       ELSE Join(SeqMap(toLowerCase, sliceFrom(fileName, lastDot)))

\* formatFromExtension(ext)
formatFromExtension(ext) ==
    CASE ext \in {"step", "stp", "p21"} -> "step"
      [] ext \in {"iges", "igs"} -> "iges"
      [] ext = "stl" -> "stl"
      [] ext = "obj" -> "obj"
      [] ext = "mtl" -> "mtl"
      [] ext \in {"gltf", "glb"} -> "gltf"
      [] ext = "3ds" -> "3ds"
      [] ext = "max" -> "3ds"
      [] OTHER -> "unknown"

\* FILE_SIGNATURES, constants.ts 198-207
STL_ASCII == "solid"
OBJ_PREFIX == {"#", "v", "vn", "vt", "f", "g", "o", "mtllib", "usemtl"}
GLTF_JSON == "{\""
GLB_MAGIC == 1179937895

\* a word of text: the pieces that spell it
Word(w) == <<w>>

\* what formatFromContent reads of a buffer: whether the decoded header
\* begins with white space (lead), its lines as words made of pieces, its
\* length, the character in column 73 of each of the runs of up to 80
\* characters that /.{1,80}/g finds ("" when the run is shorter), its
\* byteLength, and the unsigned integers at the offsets 0 and 80
TextBuffer(lead, lines, col73, byteLength) ==
    [ lead |-> lead, lines |-> lines, length |-> IF byteLength < 1024 THEN byteLength ELSE 1024,
      col73 |-> col73, byteLength |-> byteLength,
      u32at0 |-> 543976545, u32at80 |-> 774971510 ]

BinaryBuffer(byteLength, u32at0, u32at80) ==
    [ lead |-> FALSE, lines |-> << <<Word("bin")>> >>,
      length |-> IF byteLength < 1024 THEN byteLength ELSE 1024,
      col73 |-> <<"", "">>, byteLength |-> byteLength,
      u32at0 |-> u32at0, u32at80 |-> u32at80 ]

\* the bytes of the contents: those of the files of the loader, and others
\* that only format detection is given
BufferOf ==
    [ bolt     |-> BinaryBuffer(4096, 0, 80),
      hull     |-> BinaryBuffer(MAX_SIZE + 100 * 1024 * 1024, 0, 12582910),
      gear     |-> TextBuffer(FALSE,
                      << <<Word("#"), Word("gear")>>, <<Word("mtllib"), Word("gear.mtl")>>,
                         <<Word("o"), Word("gear")>>, <<Word("v"), Word("0")>>,
                         <<Word("usemtl"), Word("Red")>>, <<Word("f"), Word("1")>> >>,
                      <<"", "", "">>, 8192),
      gearmtl  |-> TextBuffer(FALSE,
                      << <<Word("newmtl"), Word("Red")>>, <<Word("Kd"), Word("1")>>, <<>>,
                         <<Word("#"), Word("end")>> >>,
                      <<"", "">>, 512),
      pump     |-> TextBuffer(FALSE,
                      << <<<<"ISO-10303-21", ";">>>>, <<Word("HEADER;")>>,
                         <<Word("FILE_NAME")>> >>,
                      <<"", "", "">>, 4096),
      blank    |-> TextBuffer(FALSE,
                      << <<<<"ISO-10303-21", ";">>>>, <<Word("HEADER;")>>,
                         <<Word("ENDSEC;")>> >>,
                      <<"", "", "">>, 1024),
      scene    |-> BinaryBuffer(4096, GLB_MAGIC, 0),
      plate    |-> TextBuffer(FALSE,
                      << <<Word("plate"), Word("S"), Word("1")>>, <<Word("1H,"), Word("G"), Word("1")>>,
                         <<Word("110"), Word("D"), Word("1")>> >>,
                      <<"S", "G", "D", "P", "T">>, 4096),
      cube     |-> TextBuffer(FALSE,
                      << <<Word("SOLID"), Word("cube")>>, <<Word("facet")>> >>,
                      <<"", "">>, 2048),
      indented |-> TextBuffer(TRUE,
                      << <<Word("solid"), Word("cube")>>, <<Word("facet")>> >>,
                      <<"", "">>, 2048),
      solidobj |-> TextBuffer(FALSE,
                      << <<<<"solid", "s.obj">>>>, <<Word("v"), Word("0")>>, <<Word("v"), Word("1")>> >>,
                      <<"", "">>, 2048),
      json     |-> TextBuffer(TRUE,
                      << <<>>, <<<<GLTF_JSON, "asset", "\":">>>> >>,
                      <<"">>, 300),
      notes    |-> TextBuffer(FALSE,
                      << <<Word("#"), Word("notes")>>, <<Word("to"), Word("do")>> >>,
                      <<"">>, 60),
      tiny     |-> BinaryBuffer(3, 0, 0),
      runt     |-> BinaryBuffer(120, 0, 1) ]

\* String.prototype.startsWith and includes, on pieces
startsWith(word, prefix) == word /= <<>> /\ word[1] = prefix
includes(word, part) == \E k \in 1..Len(word) : word[k] = part

lowerWord(word) == SeqMap(toLowerCase, word)

\* formatFromContent(), 75: headerLower.startsWith('solid')
isAsciiSTL(buffer) ==
    /\ ~buffer.lead
    /\ buffer.lines /= <<>>
    /\ buffer.lines[1] /= <<>>
    /\ startsWith(lowerWord(buffer.lines[1][1]), STL_ASCII)

\* formatFromContent(), 80-88: Math.abs(byteLength - (84 + triangleCount * 50)) < 100
\* (a count too large for the product to come near byteLength is told first,
\* so that the product stays within the integers TLC computes with)
isBinarySTL(buffer) ==
    /\ buffer.byteLength >= 84
    /\ buffer.u32at80 <= (buffer.byteLength + 16) \div 50
    /\ LET expectedSize == 84 + buffer.u32at80 * 50
           diff == buffer.byteLength - expectedSize
       IN (IF diff < 0 THEN -diff ELSE diff) < 100

\* formatFromContent(), 91-101: of the first ten lines, those that are not
\* blank and whose first word is one of OBJ_PREFIX
objMatches(buffer) ==
    LET lines == SubSeq(buffer.lines, 1, IF Len(buffer.lines) < 10 THEN Len(buffer.lines) ELSE 10)
    IN Cardinality({k \in 1..Len(lines) :
            lines[k] /= <<>> /\ Join(lines[k][1]) \in OBJ_PREFIX})

\* formatFromContent(), 107: header.trimStart().startsWith('{"')
isGltfJson(buffer) ==
    LET text == SelectSeq(buffer.lines, LAMBDA line : line /= <<>>)
    IN text /= <<>> /\ startsWith(text[1][1], GLTF_JSON)

\* formatFromContent(), 112-118
isGLB(buffer) == buffer.byteLength >= 4 /\ buffer.u32at0 = GLB_MAGIC

\* formatFromContent(), 121
isSTEP(buffer) ==
    \E k \in 1..Len(buffer.lines) : \E n \in 1..Len(buffer.lines[k]) :
        \/ includes(lowerWord(buffer.lines[k][n]), "iso-10303-21")
        \/ includes(lowerWord(buffer.lines[k][n]), "header;")

\* formatFromContent(), 126-143: substring(0, 80) of a header of 80
\* characters or more has 80 characters, so the inner test always passes
igesMarkers(buffer) ==
    LET lines80 == SubSeq(buffer.col73, 1, IF Len(buffer.col73) < 5 THEN Len(buffer.col73) ELSE 5)
    IN Cardinality({k \in 1..Len(lines80) : lines80[k] \in {"S", "G", "D", "P", "T"}})

isIGES(buffer) == buffer.length >= 80 /\ igesMarkers(buffer) >= 2

\* formatFromContent(buffer), 69-148: the signatures in the order of the code
formatFromContent(bytes) ==
    LET buffer == BufferOf[bytes]
    IN IF isAsciiSTL(buffer) THEN "stl"
       ELSE IF isBinarySTL(buffer) THEN "stl"
       ELSE IF objMatches(buffer) >= 2 THEN "obj"
       ELSE IF isGltfJson(buffer) THEN "gltf"
       ELSE IF isGLB(buffer) THEN "gltf"
       ELSE IF isSTEP(buffer) THEN "step"
       ELSE IF isIGES(buffer) THEN "iges"
       ELSE "unknown"

\* a detectFormat that looks at the content first: C20 must tell it from the
\* code
detectFormat_ContentFirst(fileName, bytes) ==
    IF formatFromContent(bytes) /= "unknown" THEN formatFromContent(bytes)
    ELSE formatFromExtension(getExtension(fileName))

\* detectFormat(fileName, buffer): the extension first, then the content
detectFormat(fileName, bytes) ==
    LET formatFromExt == formatFromExtension(getExtension(fileName))
    IN IF formatFromExt /= "unknown" THEN formatFromExt ELSE formatFromContent(bytes)

\* isFormatSupported(format)
isFormatSupported(format) == format \in {"stl", "obj", "gltf", "step", "3ds"}

\* a getBaseFileName that cuts at the last dot of the whole path: C13 must
\* tell it from the code
getBaseFileName_WholePath(fileName) ==
    LET lastDot == lastIndexOf(fileName, {"."})
    IN Join(IF lastDot > 0 THEN SubSeq(fileName, 1, lastDot - 1) ELSE fileName)

\* getBaseFileName(fileName): what follows the last slash or backslash, up
\* to its last dot
getBaseFileName(fileName) ==
    LET lastSlash == lastIndexOf(fileName, {"/", "\\"})
        name == IF lastSlash > 0 THEN sliceFrom(fileName, lastSlash) ELSE fileName
        lastDot == lastIndexOf(name, {"."})
    IN Join(IF lastDot > 0 THEN SubSeq(name, 1, lastDot - 1) ELSE name)

\* extractPartName(fileName), 657-662: what follows the last slash or
\* backslash, up to its last dot
extractPartName(fileName) ==
    LET lastSlash == lastIndexOf(fileName, {"/", "\\"})
        name == IF lastSlash > 0 THEN sliceFrom(fileName, lastSlash) ELSE fileName
        lastDot == lastIndexOf(name, {"."})
    IN Join(IF lastDot > 0 THEN SubSeq(name, 1, lastDot - 1) ELSE name)

\* name.split('.').pop()?.toLowerCase(): what follows the last dot, the
\* whole name when it has no dot
extOf(fileName) ==
    Join(SeqMap(toLowerCase, sliceFrom(fileName, lastIndexOf(fileName, {"."}))))

\* the size in MB with `digits` decimals: (size / 1024 / 1024).toFixed(digits),
\* as the number of tenths (digits = 1) or of units (digits = 0), rounded
toFixedMB(size, digits) ==
    LET MB == 1024 * 1024
        scale == IF digits = 1 THEN 10 ELSE 1
    IN (size \div MB) * scale + (((size % MB) * scale + MB \div 2) \div MB)

\* new Error(`File too large: ${sizeMB}MB (max ${maxMB}MB)`)
FileTooLarge(size) ==
    [kind |-> "File too large", sizeMB |-> toFixedMB(size, 1),
     maxMB |-> toFixedMB(MAX_SIZE, 0)]


----------------------------------------------------------------------------
(* The loader: the progress the parsers report *)

\* a progress value is a number of hundredths of a percent, rounded down; the
\* divisions, products and sums below are monotone, as they are in floating
\* point, so the order of two reported values is the order the code produces
Pct(x) == x * 100

\* the reports of a loop over n items that reports every floor(n / 20) items:
\* first + (i / n) * span for i = 0, progressInterval, 2 * progressInterval, ...
loopProgress(n, first, span) ==
    LET progressInterval == n \div 20
    IN IF progressInterval = 0 THEN <<>>
       ELSE [k \in 1..(((n - 1) \div progressInterval) + 1) |->
                Pct(first) + (((k - 1) * progressInterval) * Pct(span)) \div n]

\* the reports of a loop that reports every item: first + (i / n) * span
itemProgress(n, first, span) ==
    [k \in 1..n |-> Pct(first) + ((k - 1) * Pct(span)) \div n]

\* parseSTL: the values passed to onProgress
parseSTL(bytes) ==
    <<Pct(0), Pct(5)>> \o loopProgress(Contents[bytes].count, 5, 70)
        \o <<Pct(80), Pct(100)>>

\* parseOBJ: the values passed to onProgress
parseOBJ(bytes) ==
    <<Pct(0), Pct(5)>> \o loopProgress(Contents[bytes].count, 5, 50)
        \o (IF Contents[bytes].mtllib THEN <<Pct(55)>> ELSE <<>>)
        \o <<Pct(60)>> \o itemProgress(Contents[bytes].groups, 60, 35)
        \o <<Pct(100)>>

\* parseSTEP: the values passed to onProgress
parseSTEP(bytes) ==
    LET n == Contents[bytes].count
        progressPerMesh == Pct(50) \div n
    IN <<Pct(0), Pct(10), Pct(30), Pct(40)>>
         \o [k \in 1..n |-> Pct(40) + (k - 1) * progressPerMesh]
         \o <<Pct(90), Pct(100)>>

\* occt.ReadStepFile(uint8Array, null): the kernel reads what is a STEP file,
\* and returns its meshes
ReadStepFile(bytes) ==
    [success |-> Contents[bytes].sniff = "step", meshes |-> Contents[bytes].count]

\* parseSTEP, 77-91: the errors it throws, after the values it has reported
stepFailure(bytes) ==
    LET result == ReadStepFile(bytes)
    IN IF ~result.success
       THEN [kind |-> "Failed to read STEP file or file contains no geometry",
             reported |-> <<Pct(0), Pct(10)>>]
       ELSE IF result.meshes = 0
       THEN [kind |-> "No geometry found in STEP file",
             reported |-> <<Pct(0), Pct(10), Pct(30)>>]
       ELSE [kind |-> "none", reported |-> <<>>]

\* parse3DS: the values passed to onProgress, the loader reporting once
parse3DS(bytes) ==
    <<Pct(0), Pct(10), Pct(90), Pct(90), Pct(92)>>
        \o itemProgress(Contents[bytes].count, 92, 6) \o <<Pct(100)>>

\* mtlToCADMaterial(mtl): the color is mtl.diffuse || mtl.ambient ||
\* [0.8, 0.8, 0.8]; an array is truthy whatever it holds
mtlToCADMaterial(mtl) ==
    [color |-> IF mtl.diffuse /= <<>> THEN mtl.diffuse
               ELSE IF mtl.ambient /= <<>> THEN mtl.ambient
               ELSE <<8, 8, 8>>]

\* parseOBJ, 409-433: a part of a group whose material the table defines
\* carries the color of that material as its metadata
buildParts(assembly, materialName, mtlFile) ==
    LET materials == IF mtlFile = NoMTL THEN <<>> ELSE mtlFile.materials
    IN IF Truthy(materialName) /\ materialName \in DOMAIN materials
       THEN [assembly EXCEPT !.parts = SeqMap(
                LAMBDA part : part @@ [metadata |->
                    [color |-> mtlToCADMaterial(materials[materialName]).color]], @)]
       ELSE assembly

\* parseByFormat(buffer, fileName, format, onProgress, mtlFile): the values it
\* reports and the assembly it returns, or the error it throws; every parser
\* names the assembly with extractPartName(fileName), gives it its own format
\* tag and records fileName in the metadata
parseByFormat(bytes, fileName, format, mtlFile) ==
    LET built == [ok |-> TRUE, error |-> NoError,
                  assembly |-> [AssemblyOf(Contents[bytes].assembly) EXCEPT
                                  !.name = extractPartName(fileName),
                                  !.format = format,
                                  !.metadata = [fileName |-> Join(fileName)]]]
        thrown(reported, kind) == [ok |-> FALSE, error |-> [kind |-> kind],
                                   assembly |-> NoAssembly, reported |-> reported]
        failure == stepFailure(bytes)
    IN CASE format = "stl" -> built @@ [reported |-> parseSTL(bytes)]
         [] format = "obj" ->
              [built EXCEPT !.assembly = buildParts(@, Contents[bytes].usemtl, mtlFile)]
                  @@ [reported |-> parseOBJ(bytes)]
         [] format = "step" ->
              IF failure.kind = "none" THEN built @@ [reported |-> parseSTEP(bytes)]
              ELSE thrown(failure.reported, failure.kind)
         [] format = "3ds" -> built @@ [reported |-> parse3DS(bytes)]
         [] format = "mtl" -> thrown(<<>>, "MTL files must be loaded with their OBJ file")
         [] format = "gltf" -> thrown(<<>>, "GLTF support requires Three.js GLTFLoader")
         [] OTHER -> thrown(<<>>, "Parser not implemented")

\* parseMTL(buffer, fileName): the parsed material table
parseMTL(bytes) == [kind |-> "MTLFile", materials |-> Contents[bytes].materials]

----------------------------------------------------------------------------
(* The loader: one invocation *)

\* setLoadingProgress(progress), called by handleLoadFile or by the callback
\* it passes to the loader, 195-250
setLoadingProgress(fr, progress) ==
    IF fr.handler THEN [fr EXCEPT !.seen = Append(@, progress), !.shown = progress]
    ELSE fr

\* setTimeout(() => setLoadingProgress(null), 1000), n times
setTimeout(fr, n) == IF fr.handler THEN [fr EXCEPT !.timers = @ + n] ELSE fr

\* onProgress({stage, progress, message})
onProgress(fr, stage, progress) ==
    setLoadingProgress(
        [fr EXCEPT !.events = Append(@, [stage |-> stage, progress |-> progress])],
        [stage |-> stage, progress |-> progress])

\* onProgress for each value of a sequence
RECURSIVE onProgressAll(_, _, _)
onProgressAll(fr, stage, values) ==
    IF values = <<>> THEN fr
    ELSE onProgressAll(onProgress(fr, stage, Head(values)), stage, Tail(values))

Begin(fr, stage) == [fr EXCEPT !.stages = Append(@, <<stage, "begin">>)]
End(fr, stage) == [fr EXCEPT !.stages = Append(@, <<stage, "end">>)]
Whole(fr, stage) == End(Begin(fr, stage), stage)

\* the invocation did `what` to the file it is loading
Did(fr, what) == [fr EXCEPT !.did = @ \cup {<<fr.file.name, what>>}]

\* a handleLoadFile whose catch block shows nothing: C15 must tell it from
\* the code
Throw_Silent(fr, error) == setTimeout([fr EXCEPT !.pc = "failed", !.error = error], 1)

\* a throw: the promise of the entry point rejects with the error; when the
\* invocation was made by handleLoadFile, its catch block shows the error
\* and its finally block sets the timer, 248-254
Throw(fr, error) ==
    setTimeout(
        setLoadingProgress([fr EXCEPT !.pc = "failed", !.error = error],
                           [stage |-> "error", progress |-> 0, message |-> error]),
        1)

\* handleLoadFile, 213-217 and 229-254, after the loader resolved: a result
\* that is only a material table sets the timer and returns, and the finally
\* block sets it once more
handled(fr, materialOnly) == setTimeout(fr, IF materialOnly THEN 2 ELSE 1)

\* a return of loadCADBuffer: the entry point resolves, or the loop that
\* called loadCADFile (in loadCADFiles, or over the material files in
\* handleLoadFile) goes on
Return(fr, assembly) ==
    LET f1 == [fr EXCEPT !.result = assembly, !.ended = @ + 1]
    IN IF fr.nested
       THEN [f1 EXCEPT !.pc = IF fr.allMTL THEN "mtl.next" ELSE "files.next"]
       ELSE handled([f1 EXCEPT !.pc = "done"],
                    assembly.format = "obj" /\ assembly.parts = <<>>
                        /\ "properties" \in DOMAIN assembly.metadata)

\* loadCADBuffer(), 691-692: hashFile is called
loadCADBuffer(fr) == [Did(Begin(fr, "hash"), "hash") EXCEPT !.pc = "hashing"]

\* loadCADFile(), 586-610: the size check, the first event, the read begins
loadCADFile(fr, file) ==
    LET f0 == [fr EXCEPT !.file = file, !.events = <<>>, !.stages = <<>>,
                         !.hash = "", !.format = "", !.mtlFile = NoMTL,
                         !.result = NoAssembly, !.fromCache = FALSE]
        f1 == Whole(f0, "validate")
    IN IF file.size > MAX_SIZE
       THEN Throw(f1, FileTooLarge(file.size))
       ELSE [Begin(onProgress(f1, "fetching", Pct(0)), "read") EXCEPT !.pc = "reading"]

\* (loaded / total) * 20
readProgress(loaded, total) == (loaded * Pct(20)) \div total

\* the byte counts that the progress events of a read of `size` bytes carry
Chunkings(size) == { <<>>, <<size \div 2, size>> }

\* the loader is not running
Ready ==
    /\ load.pc \in {"idle", "done", "failed"}
    /\ tasks["t1"] = IdleTask
    /\ calls < MaxLoads
    /\ calls' = calls + 1

cacheVars == <<mem, db, initPromise, inits, store, now, tasks, faults, used, tick, lastSet>>

\* loadCADFile(file) is called
LoadCADFile(file) ==
    /\ Ready
    /\ load' = loadCADFile(NewLoad("loadCADFile"), file)
    /\ ev' = [op |-> "load.file"]
    /\ UNCHANGED <<cacheVars, mtlCache>>

\* loadCADBuffer(buffer, fileName) is called with the bytes of `file`
LoadCADBuffer(file) ==
    /\ Ready
    /\ load' = loadCADBuffer([NewLoad("loadCADBuffer") EXCEPT !.file = file])
    /\ ev' = [op |-> "load.buffer"]
    /\ UNCHANGED <<cacheVars, mtlCache>>

\* loadCADFromURL(url), 618-628: the url serves `file`, and the response
\* declares `declared` bytes as its content-length (0: no such header)
LoadCADFromURL(file, declared) ==
    /\ Ready
    /\ load' = [onProgress([NewLoad("loadCADFromURL") EXCEPT !.file = file,
                                                             !.total = declared],
                           "fetching", Pct(0))
                  EXCEPT !.pc = "fetching"]
    /\ ev' = [op |-> "load.url"]
    /\ UNCHANGED <<cacheVars, mtlCache>>

\* loadCADFromURL(), 628-645: the response arrived; the size check on the
\* declared length; the reader is taken
Fetched ==
    /\ load.pc = "fetching"
    /\ load' = LET f1 == Whole(load, "validate")
               IN IF load.total > MAX_SIZE
                  THEN Throw(f1, FileTooLarge(load.total))
                  ELSE [Begin(f1, "read") EXCEPT !.pc = "body"]
    /\ ev' = [op |-> "load.fetched"]
    /\ UNCHANGED <<cacheVars, mtlCache, calls>>

\* loadCADFromURL(), 650-680: the chunks arrive, each reported; then
\* loadCADBuffer() is called
BodyRead(chunks) ==
    /\ load.pc = "body"
    /\ load' = LET values == SeqMap(LAMBDA loaded :
                                 IF load.total > 0 THEN readProgress(loaded, load.total)
                                 ELSE Pct(10), chunks)
               IN loadCADBuffer(End(Did(onProgressAll(load, "fetching", values), "read"),
                                    "read"))
    /\ ev' = [op |-> "load.body"]
    /\ UNCHANGED <<cacheVars, mtlCache, calls>>

\* readFileAsArrayBuffer(), 844-871, and loadCADFile(), 603-612: the progress
\* events, each reported; the read ends and loadCADBuffer() is called
FileRead(chunks) ==
    /\ load.pc = "reading"
    /\ load' = LET values == SeqMap(LAMBDA loaded : readProgress(loaded, load.file.size),
                                    chunks)
               IN loadCADBuffer(End(Did(onProgressAll(load, "fetching", values), "read"),
                                    "read"))
    /\ ev' = [op |-> "load.read"]
    /\ UNCHANGED <<cacheVars, mtlCache, calls>>

\* loadCADBuffer(), 694-700: the digest arrived; 'Checking cache...' is
\* reported and cache.get(hash) is called
Hashed ==
    /\ load.pc = "hashing"
    /\ load' = [Begin(onProgress(End(load, "hash"), "parsing", Pct(20)), "lookup")
                  EXCEPT !.pc = "lookup", !.hash = hashFile(load.file.bytes)]
    /\ GeometryCache_get("t1", hashFile(load.file.bytes))
    /\ UNCHANGED <<mtlCache, calls>>

\* a hit that runs format detection before it returns: C9 must tell it from
\* the code
cacheHit_Detects(fr, cached) ==
    Return([Whole(onProgress(Whole(fr, "detect"), "complete", Pct(100)), "complete")
              EXCEPT !.fromCache = TRUE,
                     !.format = detectFormat(fr.file.name, fr.file.bytes)], cached)

\* loadCADBuffer(), 701-708: the cache held the assembly
cacheHit(fr, cached) ==
    Return([Whole(onProgress(fr, "complete", Pct(100)), "complete")
              EXCEPT !.fromCache = TRUE], cached)

\* loadCADBuffer(), 714-754: a material file is parsed and kept in mtlCache
loadMTL(fr) ==
    LET f1 == Did(onProgress(Begin(fr, "parse"), "parsing", Pct(50)), "parse")
        f2 == End(Did(f1, "mtlCache.set"), "parse")
    IN Return(Whole(onProgress(f2, "complete", Pct(100)), "complete"),
              [ id |-> "mtl",
                name |-> getBaseFileName(fr.file.name),
                format |-> "obj",
                parts |-> <<>>,
                geometries |-> JsMap(<<>>),
                rootPartIds |-> <<>>,
                totalTriangles |-> 0,
                metadata |-> [fileName |-> fr.file.name,
                              properties |-> [isMTLFile |-> TRUE]] ])

\* loadCADBuffer(), 763-781: 'Parsing ...' is reported; for an OBJ file the
\* material table of the same base name is looked up in mtlCache
startParse(fr, table) ==
    LET baseName == getBaseFileName(fr.file.name)
        f1 == onProgress(fr, "parsing", Pct(25))
        f2 == IF fr.format /= "obj" THEN f1
              ELSE IF baseName \notin DOMAIN table THEN Did(f1, "mtlCache.has")
              ELSE [onProgress(Did(f1, "mtlCache.has"), "parsing", Pct(26))
                      EXCEPT !.mtlFile = table[baseName]]
    IN [Begin(f2, "parse") EXCEPT !.pc = "parsing"]

\* loadCADBuffer(), 700-784: cache.get() resolved; a hit returns, a miss goes
\* on to detectFormat and to the parser
Looked ==
    /\ load.pc = "lookup"
    /\ tasks["t1"] = IdleTask
    /\ ev.op \in {"get.return", "get.reject"}
    /\ LET f1 == End(load, "lookup")
           format == detectFormat(load.file.name, load.file.bytes)
           f2 == [Whole(f1, "detect") EXCEPT !.format = format]
       IN /\ load' = IF ev.op = "get.reject" THEN Throw(f1, [kind |-> "cache"])
                     ELSE IF ev.result /= NoAssembly THEN cacheHit(f1, ev.result)
                     ELSE IF format = "mtl" THEN loadMTL(f2)
                     ELSE IF ~isFormatSupported(format)
                     THEN Throw(f2, [kind |-> "Format not supported", format |-> format])
                     ELSE startParse(f2, mtlCache)
          /\ mtlCache' = IF ev.op = "get.return" /\ ev.result = NoAssembly /\ format = "mtl"
                         THEN MapSet(mtlCache, getBaseFileName(load.file.name),
                                     parseMTL(load.file.bytes))
                         ELSE mtlCache
    /\ ev' = [op |-> "load.looked"]
    /\ UNCHANGED <<cacheVars, calls>>

\* 25 + p * 0.5
parserProgress(p) == Pct(25) + p \div 2

\* a loader that begins the store while the parser is still running: C8 must
\* tell it from the code
afterParse_Early(fr, assembly) ==
    [Did(Begin(fr, "store"), "cache.set") EXCEPT !.pc = "storing", !.result = assembly]

\* loadCADBuffer(), 790-797: the parser returned; 'Optimizing geometry...' is
\* reported and the store begins
afterParse(fr, assembly) ==
    [Did(Begin(Whole(onProgress(End(fr, "parse"), "optimizing", Pct(80)), "optimize"),
               "store"), "cache.set")
       EXCEPT !.pc = "storing", !.result = assembly]

\* the ids in use: of the records of the store, of the assemblies of the
\* memory tier, of those being stored and of the entries an ensureSpace()
\* has read
UsedIds ==
    DOMAIN store
    \cup {mem.cache[k].id : k \in DOMAIN mem.cache}
    \cup {tasks[t].assembly.id : t \in {u \in DOMAIN tasks : tasks[u].op = "set"}}
    \cup UNION { {tasks[t].entries[n].id : n \in 1..Len(tasks[t].entries)} :
                 t \in {u \in DOMAIN tasks : tasks[u].op = "set" /\ tasks[u].pc = "space"} }

\* crypto.randomUUID(): an id that is not in use
randomUUID == Head(SelectSeq(IdOrder, LAMBDA id : id \notin UsedIds))

\* the assembly as the parser returns it: its id is new with every parse
parsed(r) == IF r.ok THEN [r EXCEPT !.assembly.id = randomUUID] ELSE r

\* loadCADBuffer(), 784-800: the parser runs, its reports are passed on, and
\* cache.set(hash, assembly) is called; or the parser throws
Parsed ==
    /\ load.pc = "parsing"
    /\ LET r == parsed(parseByFormat(load.file.bytes, load.file.name, load.format,
                                      load.mtlFile))
           f1 == Did(onProgressAll(load, "parsing", SeqMap(parserProgress, r.reported)),
                     "parse")
       IN IF r.ok
          THEN /\ load' = afterParse(f1, r.assembly)
               /\ GeometryCache_set("t1", load.hash, r.assembly)
          ELSE /\ load' = Throw(f1, r.error)
               /\ ev' = [op |-> "load.parse.failed"]
               /\ UNCHANGED cacheVars
    /\ UNCHANGED <<mtlCache, calls>>

\* loadCADBuffer(), 800-808: cache.set() resolved; 'Ready' is reported
Stored ==
    /\ load.pc = "storing"
    /\ tasks["t1"] = IdleTask
    /\ ev.op \in {"set.return", "set.reject"}
    /\ load' = IF ev.op = "set.reject" THEN Throw(End(load, "store"), [kind |-> "cache"])
               ELSE Return(Whole(onProgress(End(load, "store"), "complete", Pct(100)),
                                 "complete"), load.result)
    /\ ev' = [op |-> "load.stored"]
    /\ UNCHANGED <<cacheVars, mtlCache, calls>>

\* [...files].sort(...): material files first, the order otherwise kept
sortMtlFirst(files) ==
    SelectSeq(files, LAMBDA f : extOf(f.name) = "mtl")
        \o SelectSeq(files, LAMBDA f : extOf(f.name) /= "mtl")

\* loadCADFiles(), 914-923: the first file that is not a material file is loaded
loadMain(fr) ==
    LET mains == SelectSeq(fr.sortedFiles, LAMBDA f : extOf(f.name) /= "mtl")
    IN IF mains = <<>>
       THEN Throw(fr, [kind |-> "No valid CAD file found (only MTL files provided)"])
       ELSE loadCADFile([fr EXCEPT !.nested = FALSE, !.idx = 0], mains[1])

\* loadCADFiles(), 906: the loop goes on to the next file, or ends
nextFile(fr) ==
    IF fr.idx < Len(fr.sortedFiles)
    THEN [fr EXCEPT !.idx = @ + 1, !.pc = "files.read", !.nested = FALSE]
    ELSE loadMain(fr)

\* loadCADFiles(files), 887-907: the files are sorted and the first is read
LoadCADFiles(files) ==
    /\ Ready
    /\ load' = IF files = <<>>
               THEN Throw(NewLoad("loadCADFiles"), [kind |-> "No files provided"])
               ELSE [NewLoad("loadCADFiles") EXCEPT !.sortedFiles = sortMtlFirst(files),
                                                    !.idx = 1, !.pc = "files.read"]
    /\ ev' = [op |-> "load.files"]
    /\ UNCHANGED <<cacheVars, mtlCache>>

\* loadCADFiles(), 906-910: file.arrayBuffer() resolved with the bytes of
\* the file; a material file is loaded with loadCADFile()
FilesRead ==
    /\ load.pc = "files.read"
    /\ load' = LET file == load.sortedFiles[load.idx]
                   f1 == [load EXCEPT !.did = @ \cup {<<file.name, "read">>}]
               IN IF detectFormat(file.name, file.bytes) = "mtl"
                  THEN loadCADFile([f1 EXCEPT !.nested = TRUE], file)
                  ELSE nextFile(f1)
    /\ ev' = [op |-> "load.files.read"]
    /\ UNCHANGED <<cacheVars, mtlCache, calls>>

\* loadCADFiles(), 909: loadCADFile() of a material file resolved
FilesNext ==
    /\ load.pc = "files.next"
    /\ load' = nextFile(load)
    /\ ev' = [op |-> "load.files.next"]
    /\ UNCHANGED <<cacheVars, mtlCache, calls>>

\* the File objects passed to loadCADFile: their names have no directory
Picked == {bolt, gear, gearMtl, hull, pump, scene, plate, blank, fake}

\* the buffers passed to loadCADBuffer, with the names they are passed with
Buffers == {bolt, gear, gearMtl, gearMtlPath, hull}

\* the urls of the model: the file served and the content-length declared
\* (0: the response has no such header)
URLs ==
    { <<bolt, 0>>, <<bolt, bolt.size>>, <<hull, 0>>, <<hull, hull.size>> }

\* the file lists passed to loadCADFiles
FileLists ==
    { <<>>, <<gear, gearMtl>>, <<gearMtl>>, <<hull>>, <<bolt, hull>>, <<gearMtl, hull>>,
      <<gearMtl, gear>>, <<bolt, gear>>, <<mtlNoDot>> }

InitLoad ==
    /\ mem = NewLRU(LRU_SIZE)
    /\ used = [k \in LruKeys |-> 0]
    /\ tick = 0
    /\ db = "null"
    /\ initPromise = 0
    /\ inits = <<>>
    /\ store \in InitialStores
    /\ now = FirstClock
    /\ tasks = [t \in Slots |-> IdleTask]
    /\ calls = 0
    /\ faults = 0
    /\ lastSet = [h \in Hashes \cup FileHashes |-> "none"]
    /\ load = IdleLoad
    /\ mtlCache = <<>>
    /\ ev = [op |-> "init"]

NextLoad ==
    \/ \E file \in Picked : LoadCADFile(file)
    \/ \E file \in Buffers : LoadCADBuffer(file)
    \/ \E u \in URLs : LoadCADFromURL(u[1], u[2])
    \/ \E files \in FileLists : LoadCADFiles(files)
    \/ Fetched
    \/ \E chunks \in Chunkings(load.file.size) : BodyRead(chunks)
    \/ \E chunks \in Chunkings(load.file.size) : FileRead(chunks)
    \/ Hashed
    \/ Looked
    \/ Parsed
    \/ Stored
    \/ FilesRead
    \/ FilesNext
    \/ \E p \in DOMAIN inits, sweepOk \in Outcomes : OpenDBResolved(p, sweepOk)
    \/ \E p \in DOMAIN inits : OpenDBRejected(p)
    \/ \E p \in DOMAIN inits : SweepDone(p)
    \/ GetAfterInit("t1")
    \/ GetRead("t1")
    \/ SetAfterInit("t1")
    \/ SetSpace("t1")
    \/ SetPut("t1")

SpecLoad == InitLoad /\ [][NextLoad]_vars

\* the loader in a session that finds the entry an earlier session left,
\* and begins before that entry has expired, or after
InitAged ==
    /\ mem = NewLRU(LRU_SIZE)
    /\ used = [k \in LruKeys |-> 0]
    /\ tick = 0
    /\ db = "null"
    /\ initPromise = 0
    /\ inits = <<>>
    /\ store \in InitialStores
    /\ store /= <<>>
    /\ now \in {FirstClock, FirstClock + ClockStep}
    /\ tasks = [t \in Slots |-> IdleTask]
    /\ calls = 0
    /\ faults = 0
    /\ lastSet = [h \in Hashes \cup FileHashes |-> "none"]
    /\ load = IdleLoad
    /\ mtlCache = <<>>
    /\ ev = [op |-> "init"]

SpecAged == InitAged /\ [][NextLoad]_vars

----------------------------------------------------------------------------
(* Two invocations of loadCADBuffer that overlap.  load is the pair of      *)
(* their frames.  The code that follows an await whose promise has settled  *)
(* runs before any other event is handled.                                  *)

Racers == {1, 2}

\* a cache call of an invocation has settled, and the invocation has not yet
\* run on: its continuation is the next thing to run, before any other event
Resumes(i) ==
    /\ load[i].pc \in {"lookup", "storing"}
    /\ tasks[load[i].slot] = IdleTask

Pending == \E i \in Racers : Resumes(i)

\* the other invocation has called cache.set() in its current run
OtherStored(i) == \E j \in Racers \ {i} : \E d \in load[j].did : d[2] = "cache.set"

\* loadCADBuffer(buffer, fileName) is called with the bytes of `file`
RaceCall(i, file) ==
    /\ ~Pending
    /\ load[i].pc \in {"idle", "done", "failed"}
    /\ calls < MaxLoads
    /\ calls' = calls + 1
    /\ load' = [load EXCEPT ![i] =
                   loadCADBuffer([NewLoad("loadCADBuffer") EXCEPT !.file = file])]
    /\ ev' = [op |-> "load.buffer"]
    /\ UNCHANGED <<cacheVars, mtlCache>>

\* loadCADBuffer(), 694-700: the digest arrived; cache.get(hash) is called
RaceHashed(i) ==
    /\ ~Pending
    /\ load[i].pc = "hashing"
    /\ \E t \in Slots :
          /\ GeometryCache_get(t, hashFile(load[i].file.bytes))
          /\ load' = [load EXCEPT ![i] =
                 [Begin(onProgress(End(load[i], "hash"), "parsing", Pct(20)), "lookup")
                    EXCEPT !.pc = "lookup", !.hash = hashFile(load[i].file.bytes),
                           !.slot = t]]
    /\ UNCHANGED <<mtlCache, calls>>

\* loadCADBuffer(), 700-784: cache.get() resolved; `sawStore` records whether
\* cache.set() had been called with the hash by then (set() writes the memory
\* tier before its first await, and nothing here removes from it)
RaceLooked(i) ==
    /\ load[i].pc = "lookup"
    /\ Resumes(i)
    /\ ev.op = "get.return"
    /\ LET f1 == [End(load[i], "lookup")
                    EXCEPT !.sawStore = IF LRU_has(mem, load[i].hash)
                                        THEN "yes" ELSE "no"]
           format == detectFormat(f1.file.name, f1.file.bytes)
           f2 == [Whole(f1, "detect") EXCEPT !.format = format]
       IN load' = [load EXCEPT ![i] =
                     IF ev.result /= NoAssembly THEN cacheHit(f1, ev.result)
                     ELSE startParse(f2, mtlCache)]
    /\ ev' = [op |-> "load.looked"]
    /\ UNCHANGED <<cacheVars, mtlCache, calls>>

\* loadCADBuffer(), 784-800: the parser runs and cache.set() is called
RaceParsed(i) ==
    /\ ~Pending
    /\ load[i].pc = "parsing"
    /\ LET r == parsed(parseByFormat(load[i].file.bytes, load[i].file.name,
                                      load[i].format, load[i].mtlFile))
           f1 == Did(onProgressAll(load[i], "parsing",
                                   SeqMap(parserProgress, r.reported)), "parse")
       IN IF r.ok
          THEN \E t \in Slots :
                 /\ GeometryCache_set(t, load[i].hash, r.assembly)
                 /\ load' = [load EXCEPT ![i] =
                        [afterParse(f1, r.assembly)
                           EXCEPT !.slot = t,
                                  !.stamp = IF OtherStored(i) THEN 2 ELSE 1]]
          ELSE /\ load' = [load EXCEPT ![i] = Throw(f1, r.error)]
               /\ ev' = [op |-> "load.parse.failed"]
               /\ UNCHANGED cacheVars
    /\ UNCHANGED <<mtlCache, calls>>

\* loadCADBuffer(), 800-808: cache.set() resolved; 'Ready' is reported
RaceStored(i) ==
    /\ load[i].pc = "storing"
    /\ Resumes(i)
    /\ ev.op = "set.return"
    /\ load' = [load EXCEPT ![i] =
                   Return(Whole(onProgress(End(load[i], "store"), "complete", Pct(100)),
                                "complete"), load[i].result)]
    /\ ev' = [op |-> "load.stored"]
    /\ UNCHANGED <<cacheVars, mtlCache, calls>>

InitRace ==
    /\ mem = NewLRU(LRU_SIZE)
    /\ used = [k \in LruKeys |-> 0]
    /\ tick = 0
    /\ db = "null"
    /\ initPromise = 0
    /\ inits = <<>>
    /\ store = <<>>
    /\ now = FirstClock
    /\ tasks = [t \in Slots |-> IdleTask]
    /\ calls = 0
    /\ faults = 0
    /\ lastSet = [h \in Hashes \cup FileHashes |-> "none"]
    /\ load = [i \in Racers |-> IdleLoad]
    /\ mtlCache = <<>>
    /\ ev = [op |-> "init"]

NextRace ==
    \/ \E i \in Racers, file \in {bolt, mtlNoDot} : RaceCall(i, file)
    \/ \E i \in Racers : RaceHashed(i)
    \/ \E i \in Racers : RaceLooked(i)
    \/ \E i \in Racers : RaceParsed(i)
    \/ \E i \in Racers : RaceStored(i)
    \/ ~Pending /\ \E p \in DOMAIN inits, sweepOk \in Outcomes : OpenDBResolved(p, sweepOk)
    \/ ~Pending /\ \E p \in DOMAIN inits : OpenDBRejected(p)
    \/ ~Pending /\ \E p \in DOMAIN inits : SweepDone(p)
    \/ ~Pending /\ \E t \in Slots : GetAfterInit(t)
    \/ ~Pending /\ \E t \in Slots : GetRead(t)
    \/ ~Pending /\ \E t \in Slots : SetAfterInit(t)
    \/ ~Pending /\ \E t \in Slots : SetSpace(t)
    \/ ~Pending /\ \E t \in Slots : SetPut(t)

SpecRace == InitRace /\ [][NextRace]_vars

----------------------------------------------------------------------------
(* Inserts into a nearly full durable tier: ensureSpace, geometry-cache.ts  *)
(* 266-285                                                                 *)

\* what earlier sessions may have left in the database when it is nearly
\* full: entries written on different days, the key order of the store not
\* being the order of their timestamps
SpaceStores ==
    LET e1 == putRecord("h1", CHOOSE a \in Assemblies : a.id = "a1", ClockStep)
        e2 == putRecord("h2", CHOOSE a \in Assemblies : a.id = "a2", 0)
        e3 == putRecord("h3", CHOOSE a \in Assemblies : a.id = "a3", 2 * ClockStep)
    IN { [i \in {"a1", "a2"} |-> IF i = "a1" THEN e1 ELSE e2],
         [i \in {"a1", "a2", "a3"} |-> IF i = "a1" THEN e1 ELSE IF i = "a2" THEN e2 ELSE e3] }

\* the assemblies inserted: one that fits once the oldest entry is gone, and
\* one that does not fit at all
Inserted == {a \in Assemblies : a.name \in {"bolt", "gear", "hull"}}

InitSpace ==
    /\ mem = NewLRU(LRU_SIZE)
    /\ used = [k \in LruKeys |-> 0]
    /\ tick = 0
    /\ db = "null"
    /\ initPromise = 0
    /\ inits = <<>>
    /\ store \in SpaceStores
    /\ now = FirstClock
    /\ tasks = [t \in Slots |-> IdleTask]
    /\ calls = 0
    /\ faults = 0
    /\ lastSet = [h \in Hashes |-> "none"]
    /\ load = IdleLoad
    /\ mtlCache = <<>>
    /\ ev = [op |-> "init"]

\* inserts into a nearly full database, one call at a time; as in the
\* loader, set() is handed the assembly a parser has just built, whose id is
\* a new UUID
NextSpace ==
    \/ \E assembly \in Inserted :
          CallSet("t1", "h1", [assembly EXCEPT !.id = randomUUID])
    \/ \E p \in DOMAIN inits, sweepOk \in Outcomes : OpenDBResolved(p, sweepOk)
    \/ \E p \in DOMAIN inits : OpenDBRejected(p)
    \/ \E p \in DOMAIN inits : SweepDone(p)
    \/ SetAfterInit("t1")
    \/ SetSpace("t1")
    \/ SetPut("t1")
    \/ Tick

SpecSpace == InitSpace /\ [][NextSpace]_vars

----------------------------------------------------------------------------
(* Format detection on its own: detectFormat, part_005 12-148 *)

\* the file names detectFormat is given: extensions in either case, names
\* without an extension, with a dot only in a directory, or ending in a dot
DetectNames ==
    { FileName("bolt", e) : e \in {"stl", "STL", "Stp", "stp", "step", "p21", "igs", "iges",
                                    "obj", "OBJ", "mtl", "MTL", "gltf", "glb", "GLB",
                                    "3ds", "max", "txt", "bak", ""} }
    \cup { InDir(<<"Models", ".", "v2">>, FileName("gear", "")),
           InDir(<<"Models", ".", "stl">>, FileName("gear", "")),
           InDir(<<"Models", ".", "v2">>, FileName("gear", "obj")),
           <<"bolt", ".", "stl", ".", "bak">>, <<"bolt", ".", "bak", ".", "stl">>,
           <<"bolt", ".">>, FileName("mtl", "") }

InitDetect ==
    /\ mem = NewLRU(LRU_SIZE)
    /\ used = [k \in LruKeys |-> 0]
    /\ tick = 0
    /\ db = "null"
    /\ initPromise = 0
    /\ inits = <<>>
    /\ store = <<>>
    /\ now = FirstClock
    /\ tasks = [t \in Slots |-> IdleTask]
    /\ calls = 0
    /\ faults = 0
    /\ lastSet = [h \in Hashes \cup FileHashes |-> "none"]
    /\ \E fileName \in DetectNames, bytes \in DOMAIN BufferOf :
          load = [IdleLoad EXCEPT !.file = [name |-> fileName,
                                            size |-> BufferOf[bytes].byteLength,
                                            bytes |-> bytes]]
    /\ mtlCache = <<>>
    /\ ev = [op |-> "init"]

\* detectFormat(fileName, buffer) is called
Detect ==
    /\ load.pc = "idle"
    /\ load' = [load EXCEPT !.pc = "done",
                            !.format = detectFormat(load.file.name, load.file.bytes)]
    /\ ev' = [op |-> "detect"]
    /\ UNCHANGED <<cacheVars, mtlCache, calls>>

NextDetect == Detect

SpecDetect == InitDetect /\ [][NextDetect]_vars

----------------------------------------------------------------------------
(* The viewer: handleLoadFile, part_003 194-255 *)

\* what the file input and the drop handler pass to handleLoadFile: a file,
\* or the list of the files when there are several
Dropped ==
    { <<bolt>>, <<hull>>, <<scene>>, <<gearMtl>>, <<gearMtl, gearMtlPath>>,
      <<gear, gearMtl>>, <<gearMtl, hull>>, <<gearMtl, plate>> }

\* handleLoadFile(fileOrFiles), 194-227: 'Starting...' is shown; a list of
\* material files only is loaded file by file, several files go to
\* loadCADFiles and a single file to loadCADFile
HandleLoadFile(files) ==
    /\ Ready
    /\ load' =
         LET f0 == setLoadingProgress(
                       [NewLoad("loadCADFile") EXCEPT !.handler = TRUE,
                                                      !.timers = load.timers,
                                                      !.shown = load.shown],
                       [stage |-> "fetching", progress |-> Pct(0)])
             allMTL == \A i \in 1..Len(files) : extOf(files[i].name) = "mtl"
         IN IF allMTL
            THEN loadCADFile([f0 EXCEPT !.allMTL = TRUE, !.nested = TRUE,
                                        !.sortedFiles = files, !.idx = 1], files[1])
            ELSE IF Len(files) > 1
            THEN [f0 EXCEPT !.entry = "loadCADFiles", !.sortedFiles = sortMtlFirst(files),
                            !.idx = 1, !.pc = "files.read"]
            ELSE loadCADFile(f0, files[1])
    /\ ev' = [op |-> "load.handle"]
    /\ UNCHANGED <<cacheVars, mtlCache>>

\* handleLoadFile, 208-217: loadCADFile() of a material file resolved; the
\* next one is loaded, or the loop is over
HandleNext ==
    /\ load.pc = "mtl.next"
    /\ load' = IF load.idx < Len(load.sortedFiles)
               THEN loadCADFile([load EXCEPT !.idx = @ + 1],
                                load.sortedFiles[load.idx + 1])
               ELSE handled([load EXCEPT !.pc = "done"], TRUE)
    /\ ev' = [op |-> "load.handle.next"]
    /\ UNCHANGED <<cacheVars, mtlCache, calls>>

\* () => setLoadingProgress(null), 216, 235, 253: a timer has run out
TimerFired ==
    /\ load.timers > 0
    /\ load' = [load EXCEPT !.timers = @ - 1, !.shown = NoProgress]
    /\ UNCHANGED <<cacheVars, mtlCache, calls, ev>>

NextView ==
    \/ \E files \in Dropped : HandleLoadFile(files)
    \/ HandleNext
    \/ TimerFired
    \/ \E chunks \in Chunkings(load.file.size) : FileRead(chunks)
    \/ Hashed
    \/ Looked
    \/ Parsed
    \/ Stored
    \/ FilesRead
    \/ FilesNext
    \/ \E p \in DOMAIN inits, sweepOk \in Outcomes : OpenDBResolved(p, sweepOk)
    \/ \E p \in DOMAIN inits : OpenDBRejected(p)
    \/ \E p \in DOMAIN inits : SweepDone(p)
    \/ GetAfterInit("t1")
    \/ GetRead("t1")
    \/ SetAfterInit("t1")
    \/ SetSpace("t1")
    \/ SetPut("t1")

SpecView == InitLoad /\ [][NextView]_vars


----------------------------------------------------------------------------
(* Claims about the loader *)

\* C7: the progress values of the events of one invocation of loadCADFile,
\* loadCADFromURL or loadCADBuffer never decrease and lie in [0, 100]
C7_ProgressNonDecreasing ==
    \A i \in 1..Len(load.events) :
        /\ load.events[i].progress >= Pct(0)
        /\ load.events[i].progress <= Pct(100)
        /\ i > 1 => load.events[i - 1].progress <= load.events[i].progress

\* the stages of a load, in the order of the specification
StageNames ==
    <<"validate", "read", "hash", "lookup", "detect", "parse", "optimize", "store",
      "complete">>

Rank(stage) == CHOOSE i \in 1..Len(StageNames) : StageNames[i] = stage

\* C8: in one invocation each stage ends before the next begins, the stages
\* that occur occur in the order validate, read, hash, lookup, detect, parse,
\* optimize, store, complete, the store begins only after the parse has
\* ended, the cache is read only during the lookup and written only during
\* the store, and a loadCADFile() that parses a geometry file and resolves
\* has gone through all nine
C8_StagesInOrder ==
    LET st == load.stages IN
    /\ \A i \in 1..Len(st) :
          /\ i % 2 = 1 => st[i][2] = "begin"
          /\ i % 2 = 0 => st[i] = <<st[i - 1][1], "end">>
          /\ (i > 2 /\ i % 2 = 1) => Rank(st[i - 2][1]) < Rank(st[i][1])
          /\ st[i] = <<"store", "begin">>
             => \E j \in 1..(i - 1) : st[j] = <<"parse", "end">>
    /\ tasks["t1"] /= IdleTask
       => st[Len(st)] = <<IF tasks["t1"].op = "get" THEN "lookup" ELSE "store", "begin">>
    /\ load.pc \in {"done", "files.next"} => st[Len(st)] = <<"complete", "end">>
    /\ ( /\ load.pc = "done"
         /\ load.entry = "loadCADFile"
         /\ ~load.fromCache
         /\ load.format /= "mtl" )
       => st = [i \in 1..(2 * Len(StageNames)) |->
                   <<StageNames[(i + 1) \div 2], IF i % 2 = 1 THEN "begin" ELSE "end">>]

\* a loadCADFile() has parsed a file, stored the assembly and resolved
C8_Witness ==
    /\ load.pc = "done"
    /\ load.entry = "loadCADFile"
    /\ ~load.fromCache
    /\ load.format = "stl"
    /\ Len(load.stages) = 2 * Len(StageNames)

\* C9: when cache.get() resolves with an assembly, loadCADBuffer reports
\* 'complete' with progress 100 and returns that assembly; it does not run
\* detectFormat or a parser, does not touch mtlCache and does not call
\* cache.set()
C9_CacheHitShortCircuits ==
    [][ ( /\ load.pc = "lookup"
          /\ load'.pc /= "lookup"
          /\ ev.op = "get.return"
          /\ ev.result /= NoAssembly )
        => /\ load'.pc \in {"done", "files.next"}
           /\ load'.result = ev.result
           /\ load'.events = Append(load.events,
                                    [stage |-> "complete", progress |-> Pct(100)])
           /\ load'.format = ""
           /\ load'.did = load.did
           /\ \A i \in 1..Len(load'.stages) :
                 load'.stages[i][1] \notin {"detect", "parse", "optimize", "store"}
           /\ UNCHANGED <<mtlCache, mem, db, store, tasks, initPromise, inits>>
      ]_vars

\* a load has returned the assembly that the cache held
C9_Witness ==
    /\ load.pc = "done"
    /\ load.fromCache
    /\ load.result /= NoAssembly
    /\ load.events[Len(load.events)] = [stage |-> "complete", progress |-> Pct(100)]

\* the files that an invocation through a file entry point was given
GivenFiles ==
    IF load.entry = "loadCADFile" THEN {load.file}
    ELSE IF load.entry = "loadCADFiles" THEN Range(load.sortedFiles)
    ELSE {}

\* C10: of a file larger than MAX_SIZE given to loadCADFile or to
\* loadCADFiles no byte is read, nothing is hashed or parsed, and nothing is
\* written to the cache or to mtlCache; the invocation ends by failing with
\* 'File too large' naming the size of the file and the maximum
C10_OversizedFailsBeforeRead ==
    \A f \in GivenFiles :
        f.size > MAX_SIZE
        => /\ \A d \in load.did : d[1] /= f.name
           /\ load.pc /= "done"
           /\ load.pc = "failed" => load.error = FileTooLarge(f.size)

\* C11: through every entry point, of an input whose bytes or whose declared
\* content-length number more than MAX_SIZE nothing is hashed, parsed or
\* written to the cache, and the invocation does not resolve
C11_OversizedNeverProcessed ==
    ( /\ load.pc /= "idle"
      /\ (load.file.size > MAX_SIZE \/ load.total > MAX_SIZE) )
    => /\ \A what \in {"hash", "parse", "cache.set"} :
             <<load.file.name, what>> \notin load.did
       /\ load.pc /= "done"

\* C12: whatever was loaded before, once gear.mtl (material Red, diffuse
\* [1, 1, 1]) is in mtlCache, a load of gear.obj (faces under usemtl Red) that
\* resolves returns an assembly with a part whose color is [1, 1, 1] (ten
\* tenths each)
C12_MaterialApplied ==
    ( /\ load.pc = "done"
      /\ load.file = gear
      /\ "gear" \in DOMAIN mtlCache
      /\ mtlCache["gear"] = parseMTL(gearMtl.bytes) )
    => \E i \in 1..Len(load.result.parts) :
          /\ "metadata" \in DOMAIN load.result.parts[i]
          /\ load.result.parts[i].metadata.color = <<10, 10, 10>>

\* the material files of the model, all with the base name gear
MaterialFiles == {f \in Files : detectFormat(f.name, f.bytes) = "mtl"}

\* C13: a load that misses the cache and detects a material file puts the
\* parsed table into mtlCache under the base name of the file (gear for
\* gear.mtl and for Models.v2/gear.mtl), leaves the rest of mtlCache alone,
\* returns an assembly without parts and geometries, with totalTriangles 0 and
\* isMTLFile set, and neither calls the cache nor changes one of its tiers;
\* the hash of a material file is never a key of the memory tier or of a
\* record of the durable tier
C13_MaterialFileLoad ==
    [][ ( /\ load.pc = "lookup"
          /\ load'.pc /= "lookup"
          /\ ev.op = "get.return"
          /\ ev.result = NoAssembly
          /\ load.file \in MaterialFiles )
        => /\ mtlCache' = MapSet(mtlCache, "gear",
                                 [kind |-> "MTLFile",
                                  materials |-> Contents[load.file.bytes].materials])
           /\ load'.pc \in {"done", "files.next"}
           /\ load'.result.parts = <<>>
           /\ load'.result.geometries = JsMap(<<>>)
           /\ load'.result.totalTriangles = 0
           /\ load'.result.metadata.properties.isMTLFile
           /\ \A d \in load'.did : d[2] /= "cache.set"
           /\ UNCHANGED <<mem, store, db, tasks, lastSet>>
           /\ \A f \in MaterialFiles :
                 /\ ~LRU_has(mem, hashFile(f.bytes))
                 /\ \A i \in DOMAIN store : store[i].hash /= hashFile(f.bytes)
      ]_vars

\* the material file named with its directory has been loaded: its table is
\* in mtlCache under gear, and the invocation resolved
C13_Witness ==
    /\ load.pc = "done"
    /\ load.file = gearMtlPath
    /\ load.result.metadata.properties.isMTLFile
    /\ DOMAIN mtlCache = {"gear"}

\* C14: in loadCADFiles, when the load of a file that is not a material file
\* begins, every material file of the list has been loaded (its table was
\* put into mtlCache); the invocation loads one file that is not a material
\* file, resolves with the result of that load, and says that no CAD file
\* was given only when every file of the list is a material file
C14_MaterialsBeforeMain ==
    load.entry = "loadCADFiles"
    => /\ (load.file /= NoFile /\ load.file \notin MaterialFiles)
          => \A f \in Range(load.sortedFiles) \cap MaterialFiles :
                <<f.name, "mtlCache.set">> \in load.did
       /\ load.pc = "done"
          => /\ load.file \in Range(load.sortedFiles) \ MaterialFiles
             /\ \A d \in load.did :
                   d[2] \in {"hash", "parse"}
                   => \/ d[1] = load.file.name
                      \/ \E f \in MaterialFiles : f.name = d[1]
       /\ (load.pc = "failed" /\ load.error.kind
                = "No valid CAD file found (only MTL files provided)")
          => Range(load.sortedFiles) \subseteq MaterialFiles

\* C15: when an invocation of handleLoadFile fails, the last value it passed
\* to setLoadingProgress has the stage error and carries the message of the
\* failure, it is the only one with that stage, every complete it showed came
\* before it, and what is shown from then on is that value or, once a timer
\* has run out, nothing
C15_ErrorIsLastEvent ==
    (load.handler /\ load.pc = "failed")
    => LET n == Len(load.seen) IN
       /\ n >= 2
       /\ load.seen[n] = [stage |-> "error", progress |-> 0, message |-> load.error]
       /\ \A i \in 1..(n - 1) : load.seen[i].stage /= "error"
       /\ load.shown \in {load.seen[n], NoProgress}

\* handleLoadFile has shown the complete of a material file and then the
\* failure of the geometry file
C15_Witness ==
    /\ load.handler
    /\ load.pc = "failed"
    /\ \E i \in 1..Len(load.seen) : load.seen[i].stage = "complete"
    /\ load.seen[Len(load.seen)].stage = "error"
    /\ load.shown = load.seen[Len(load.seen)]

\* the failures of C16: no parser for the detected format, or the parser threw
FatalKinds ==
    { "Format not supported", "MTL files must be loaded with their OBJ file",
      "GLTF support requires Three.js GLTFLoader", "Parser not implemented",
      "Failed to read STEP file or file contains no geometry",
      "No geometry found in STEP file" }

\* C16 as stated: an invocation that has failed for a fatal reason has one
\* error and no assembly, and both cache tiers are as they were when it was
\* called
C16_FailureLeavesCacheUntouched ==
    (load.pc = "failed" /\ load.error.kind \in FatalKinds)
    => /\ load.result = NoAssembly
       /\ mem = load.before.mem
       /\ store = load.before.store

\* C16, amended: an invocation that has failed for a fatal reason has one
\* error and no assembly; the memory tier is as it was when it was called,
\* no record of the durable tier was added or changed, and the records that
\* are gone are those the sweep of the cache initialization found expired
C16_FailureAddsNothing ==
    (load.pc = "failed" /\ load.error.kind \in FatalKinds)
    => /\ load.result = NoAssembly
       /\ mem = load.before.mem
       /\ \A i \in DOMAIN store :
             i \in DOMAIN load.before.store /\ store[i] = load.before.store[i]
       /\ \A i \in DOMAIN load.before.store \ DOMAIN store :
             load.before.store[i].timestamp < now - TTL_MS
       /\ \A d \in load.did : d[2] /= "cache.set"

\* the STEP parser found no geometry, in a session whose database holds an
\* entry that has not expired, and the database is open
C16_Witness ==
    /\ load.pc = "failed"
    /\ load.error.kind = "No geometry found in STEP file"
    /\ <<load.file.name, "parse">> \in load.did
    /\ db = "open"
    /\ store /= <<>>
    /\ store = load.before.store


\* how many times x occurs in seq
Occurrences(seq, x) == Cardinality({k \in 1..Len(seq) : seq[k] = x})

\* C17: two loadCADBuffer calls on the same bytes whose cache lookups both
\* resolved before either called cache.set(): both missed, neither fails, both
\* run the parser; once both have returned they hold two assemblies of their
\* own, the memory tier holds the hash once and with it the assembly of the
\* invocation that called cache.set() last; and an invocation called when the
\* memory tier holds the hash returns from the cache without parsing
C17_OverlappingLoads ==
    /\ ( /\ load[1].sawStore = "no" /\ load[2].sawStore = "no"
         /\ load[1].file.bytes = load[2].file.bytes )
       => /\ load[1].hash = load[2].hash
          /\ \A i \in Racers :
                /\ ~load[i].fromCache
                /\ load[i].pc \in {"parsing", "storing", "done"}
                /\ load[i].pc \in {"storing", "done"}
                      => /\ <<load[i].file.name, "parse">> \in load[i].did
                         /\ load[i].result /= NoAssembly
                         /\ load[i].stamp \in {1, 2}
          /\ (load[1].pc = "done" /\ load[2].pc = "done")
                => /\ load[1].result.id /= load[2].result.id
                   /\ load[1].stamp /= load[2].stamp
                   /\ Occurrences(mem.order, load[1].hash) = 1
                   /\ \A i \in Racers :
                         load[i].stamp = 2
                            => LRU_value(mem, load[1].hash) = load[i].result
    /\ \A i \in Racers :
          ( /\ load[i].pc = "done"
            /\ LRU_has(load[i].before.mem, hashFile(load[i].file.bytes)) )
          => /\ load[i].fromCache
             /\ load[i].result /= NoAssembly
             /\ <<load[i].file.name, "parse">> \notin load[i].did

\* both invocations looked before either stored, both have returned, and the
\* one that returned first had stored last
C17_Witness ==
    /\ load[1].sawStore = "no" /\ load[2].sawStore = "no"
    /\ load[1].pc = "done" /\ load[2].pc = "done"
    /\ load[1].stamp = 2
    /\ LRU_value(mem, load[1].hash) = load[1].result
    /\ load[1].result.id /= load[2].result.id

\* after the two overlapping loads, a third load of the same bytes has hit
C17_WitnessLater ==
    \E i \in Racers :
       /\ load[i].pc = "done" /\ load[i].fromCache
       /\ load[i].before.mem /= <<>>
       /\ LRU_has(load[i].before.mem, load[i].hash)
       /\ \E j \in Racers \ {i} : load[j].pc = "done" /\ load[j].sawStore = "no"
                                      /\ load[j].stamp = 2


\* C18: every entry ensureSpace() deletes is one none of the entries left is
\* older than; it is deleted when the sizes of the stored entries and of the
\* new one add up to more than CACHE.MAX_SIZE_BYTES; and the deletes of one
\* insert come in non-decreasing order of timestamp
C18_OldestFirstUntilRoom ==
    [][ (ev'.op = "set.delete" /\ ev'.ok /\ ev'.id \in DOMAIN store)
        => /\ store' = MapDelete(store, ev'.id)
           /\ store[ev'.id].timestamp = ev'.timestamp
           /\ \A i \in DOMAIN store' : store'[i].timestamp >= ev'.timestamp
           /\ StoredBytes > MAX_SIZE_BYTES - ev'.requiredSize
           /\ (ev.op = "set.delete" /\ ev.slot = ev'.slot)
                 => ev.timestamp <= ev'.timestamp ]_vars

\* an insert deleted the oldest entry of three and then had room: the two
\* newer entries are kept, and one of them has the lower key
C18_Witness ==
    /\ ev.op = "set.put"
    /\ ev.ok
    /\ "a2" \notin DOMAIN store
    /\ {"a1", "a3"} \subseteq DOMAIN store
    /\ StoredBytes <= MAX_SIZE_BYTES


\* the entries of the store that are older than the TTL at the time `time`
Expired(st, time) == {i \in DOMAIN st : st[i].timestamp < time - TTL_MS}

\* C19 as stated: when the sweep of the initialization has settled and the
\* database is open, the store holds no entry older than the TTL, the
\* entries that are gone were older than the TTL, and the initialization
\* completes with that store
C19_InitLeavesNoExpired ==
    [][ /\ (ev'.op = "init.open" /\ db' = "open")
           => /\ Expired(store', now') = {}
              /\ \A i \in DOMAIN store \ DOMAIN store' : i \in Expired(store, now)
              /\ \A i \in DOMAIN store' : i \in DOMAIN store /\ store'[i] = store[i]
        /\ ev'.op = "init.done" => (db' = "open" /\ store' = store) ]_vars

\* C19, amended: a sweep whose transaction succeeds deletes the entries older
\* than the TTL and no other; a sweep whose transaction fails deletes
\* nothing; in both cases the initialization then completes with the
\* database open and the store as the sweep left it
C19_SweepDeletesExpiredOnly ==
    [][ /\ (ev'.op = "init.open" /\ db' = "open")
           => /\ ev'.ok => Expired(store', now') = {}
              /\ ~ev'.ok => store' = store
              /\ \A i \in DOMAIN store \ DOMAIN store' : i \in Expired(store, now)
              /\ \A i \in DOMAIN store' : i \in DOMAIN store /\ store'[i] = store[i]
              /\ \E p \in DOMAIN inits : inits[p] = "opening" /\ inits'[p] = "sweeping"
        /\ ev'.op = "init.done" => (db' = "open" /\ store' = store) ]_vars

\* the sweep has deleted the entry written nine days ago and has kept the
\* entries written six and three days ago
C19_Witness ==
    /\ ev.op = "init.open"
    /\ ev.ok
    /\ db = "open"
    /\ now = FirstClock + ClockStep
    /\ "a2" \notin DOMAIN store
    /\ {"a1", "a3"} \subseteq DOMAIN store


\* the tag of each recognized extension
ExtensionTag ==
    [ step |-> "step", stp |-> "step", p21 |-> "step", iges |-> "iges", igs |-> "iges",
      stl |-> "stl", obj |-> "obj", mtl |-> "mtl", gltf |-> "gltf", glb |-> "gltf",
      max |-> "3ds" ] @@ ("3ds" :> "3ds")

\* the extension of a file name, in lower case: what follows the last dot of
\* its last path segment, "" when that segment has no dot
Extension(fileName) ==
    LET lastSlash == lastIndexOf(fileName, {"/", "\\"})
        segment == SubSeq(fileName, lastSlash + 1, Len(fileName))
        lastDot == lastIndexOf(segment, {"."})
    IN IF lastDot = 0 THEN ""
       ELSE Join(SeqMap(toLowerCase, SubSeq(segment, lastDot + 1, Len(segment))))

\* the formats whose signature a buffer bears
Signatures(buffer) ==
    {f \in {"stl", "obj", "gltf", "step", "iges"} :
        \/ f = "stl" /\ (isAsciiSTL(buffer) \/ isBinarySTL(buffer))
        \/ f = "obj" /\ objMatches(buffer) >= 2
        \/ f = "gltf" /\ (isGltfJson(buffer) \/ isGLB(buffer))
        \/ f = "step" /\ isSTEP(buffer)
        \/ f = "iges" /\ isIGES(buffer)}

\* C20: detectFormat returns the tag of the name's extension, compared without
\* regard to case, when the extension is a recognized one, whatever the
\* bytes; otherwise a format whose signature the bytes bear, and 'unknown'
\* when they bear none
C20_ExtensionFirst ==
    load.pc = "done" /\ ev.op = "detect"
    => LET ext == Extension(load.file.name)
           found == Signatures(BufferOf[load.file.bytes])
       IN IF ext \in DOMAIN ExtensionTag
          THEN load.format = ExtensionTag[ext]
          ELSE IF found = {} THEN load.format = "unknown"
          ELSE load.format \in found

\* a file named .Stp whose bytes bear the signature of a binary STL file is
\* detected as STEP
C20_Witness ==
    /\ load.pc = "done" /\ ev.op = "detect"
    /\ Extension(load.file.name) = "stp"
    /\ load.file.name /= FileName("bolt", "stp")
    /\ "stl" \in Signatures(BufferOf[load.file.bytes])
    /\ load.format = "step"

----------------------------------------------------------------------------
(* The OBJ parser, part_006 243-600 *)

\* the lines of an OBJ text the parser is given: the number of its `v` lines,
\* and the number of its other lines but `vn` and `vt`
MaxObjVertices == 4
MaxObjLines == 3

\* an index parseFace finds missing (undefined, or NaN once 1 is subtracted):
\* no array has an element at it
NoIndex == -1000000

\* the array of the elements of s, held as a tuple
ArrayOf(s) == SubSeq(s, 1, Len(s))

\* Op(x), the value x being computed once
Once(x, Op(_)) == CHOOSE y \in {Op(v) : v \in {x}} : TRUE

\* array[i] ?? dflt, with i counted from 0
AtOr(array, i, dflt) == IF i >= 0 /\ i < Len(array) THEN array[i + 1] ELSE dflt

\* array[i] of an array of indices, undefined past its end
IndexAt(array, i) == AtOr(array, i, NoIndex)

\* OBJGroup; the name "" stands for an undefined materialName (usemtl never
\* records an empty name: parts.slice(1).join(' ') || undefined). `under` and
\* `refs` are history: the material that was active when each entry of
\* vertexIndices was pushed, and the reference of the face line the entry
\* was pushed for
NewGroup(name, materialName) ==
    [ name |-> name, vertexIndices |-> <<>>, normalIndices |-> <<>>, uvIndices |-> <<>>,
      materialName |-> materialName, under |-> <<>>, refs |-> <<>> ]

\* one vertex reference of a face line, "v", "v/vt", "v//vn" or "v/vt/vn":
\* def.split('/'), a part being <<>> when it is absent or empty
Ref(v, vt, vn) == [v |-> v, vt |-> vt, vn |-> vn]
V(v) == Ref(v, <<>>, <<>>)

\* parseInt(parts[k]) - 1 of every reference that carries part k
refIndices(vertexDefs, part) ==
    LET carried == SelectSeq(vertexDefs, LAMBDA def : def[part] /= <<>>)
    IN [k \in 1..Len(carried) |-> carried[k][part][1] - 1]

\* the fan loop of parseFace, 485-504, over one array of indices of a face of
\* n references: (a[0], a[i], a[i + 1]) for i = 1 .. n - 2
RECURSIVE fan(_, _, _)
fan(a, i, n) ==
    IF i >= n - 1 THEN <<>>
    ELSE <<IndexAt(a, 0), IndexAt(a, i), IndexAt(a, i + 1)>> \o fan(a, i + 1, n)

\* a triangulation into a strip, (a[i - 1], a[i], a[i + 1]): C21 must tell
\* it from the code
RECURSIVE strip(_, _, _)
strip(a, i, n) ==
    IF i >= n - 1 THEN <<>>
    ELSE <<IndexAt(a, i - 1), IndexAt(a, i), IndexAt(a, i + 1)>> \o strip(a, i + 1, n)

parseFace_Strip(vertexDefs, group, active) ==
    LET faceVertexIndices == [k \in 1..Len(vertexDefs) |-> vertexDefs[k].v - 1]
        pushed == strip(faceVertexIndices, 1, Len(faceVertexIndices))
    IN [group EXCEPT !.vertexIndices = @ \o pushed,
                     !.refs = @ \o strip(vertexDefs, 1, Len(vertexDefs)),
                     !.under = @ \o [k \in 1..Len(pushed) |-> active]]

\* parseFace(vertexDefs, group), 460-505; `active` is the material that is
\* active at this line, for the history
parseFace(vertexDefs, group, active) ==
    LET faceVertexIndices == [k \in 1..Len(vertexDefs) |-> vertexDefs[k].v - 1]
        faceUVIndices == refIndices(vertexDefs, "vt")
        faceNormalIndices == refIndices(vertexDefs, "vn")
        n == Len(faceVertexIndices)
        pushed == fan(faceVertexIndices, 1, n)
    IN [group EXCEPT
          !.refs = @ \o fan(vertexDefs, 1, n),
          !.vertexIndices = @ \o pushed,
          !.normalIndices = IF Len(faceNormalIndices) > 0
                            THEN @ \o fan(faceNormalIndices, 1, n) ELSE @,
          !.uvIndices = IF Len(faceUVIndices) > 0
                        THEN @ \o fan(faceUVIndices, 1, n) ELSE @,
          !.under = @ \o [k \in 1..Len(pushed) |-> active]]

\* nx / len, ny / len, nz / len of computeFaceNormals, 584-591, for a cross
\* product that is zero or parallel to an axis (the vertices of the model
\* have whole coordinates in the plane z = 0)
Sign(x) == IF x > 0 THEN 1 ELSE IF x < 0 THEN -1 ELSE 0
normalize(nx, ny, nz) ==
    CASE nx = 0 /\ ny = 0 /\ nz = 0 -> <<nx, ny, 1>>
      [] Cardinality({k \in 1..3 : <<nx, ny, nz>>[k] /= 0}) = 1 ->
            <<Sign(nx), Sign(ny), Sign(nz)>>

\* computeFaceNormals(positions, normals), 567-600: the flat normal of every
\* run of nine positions, written to its three vertices
computeFaceNormals(positions) ==
    LET normalOf(t) ==
            LET a == SubSeq(positions, 9 * t + 1, 9 * t + 3)
                b == SubSeq(positions, 9 * t + 4, 9 * t + 6)
                c == SubSeq(positions, 9 * t + 7, 9 * t + 9)
                e1 == [k \in 1..3 |-> b[k] - a[k]]
                e2 == [k \in 1..3 |-> c[k] - a[k]]
            IN normalize(e1[2] * e2[3] - e1[3] * e2[2],
                         e1[3] * e2[1] - e1[1] * e2[3],
                         e1[1] * e2[2] - e1[2] * e2[1])
        flat == ArrayOf([t \in 1..(Len(positions) \div 9) |-> normalOf(t - 1)])
    IN ArrayOf([j \in 1..Len(positions) |->
                  IF (j - 1) \div 9 < Len(positions) \div 9
                  THEN flat[((j - 1) \div 9) + 1][((j - 1) % 3) + 1] ELSE 0])

\* x / 3 in floating point: a whole number, or a fraction
Thirds(x) == IF x % 3 = 0 THEN x \div 3 ELSE [num |-> x, den |-> 3]

\* buildGeometry(group, vertices, normals, uvs), 510-562
buildGeometry(group, vertices, normals, uvs) ==
    LET vertexCount == Len(group.vertexIndices)
        positions == ArrayOf([j \in 1..(vertexCount * 3) |->
                        AtOr(vertices,
                             group.vertexIndices[((j - 1) \div 3) + 1] * 3 + ((j - 1) % 3), 0)])
        outNormals ==
            IF Len(group.normalIndices) > 0
            THEN ArrayOf([j \in 1..(vertexCount * 3) |->
                    AtOr(normals,
                         IndexAt(group.normalIndices, (j - 1) \div 3) * 3 + ((j - 1) % 3),
                         IF (j - 1) % 3 = 2 THEN 1 ELSE 0)])
            ELSE computeFaceNormals(positions)
        outUVs ==
            IF Len(group.uvIndices) > 0
            THEN ArrayOf([j \in 1..(vertexCount * 2) |->
                    AtOr(uvs, IndexAt(group.uvIndices, (j - 1) \div 2) * 2 + ((j - 1) % 2), 0)])
            ELSE <<>>
    IN [ positions |-> NewFloat32Array(positions),
         normals |-> NewFloat32Array(outNormals),
         uvs |-> NewFloat32Array(outUVs),
         indices |-> NewUint32Array([i \in 1..vertexCount |-> i - 1]),
         triangleCount |-> Thirds(vertexCount) ]

\* crypto.randomUUID(): the n-th identifier a parse draws
Uuids == <<"u1", "u2", "u3", "u4", "u5", "u6", "u7", "u8", "u9", "u10", "u11", "u12", "u13">>

\* `group_${groups.length}`
groupNumbered(n) == <<"group_0", "group_1", "group_2", "group_3", "group_4", "group_5">>[n + 1]

\* the locals of parseOBJ when its loop over the lines begins, 252-271
ObjFrame ==
    [ pc |-> "lines", lines |-> 0,
      vertices |-> <<>>, normals |-> <<>>, uvs |-> <<>>,
      groups |-> <<>>,
      currentGroup |-> NewGroup("default", ""),
      currentMaterialName |-> "",
      assembly |-> NoAssembly ]

\* the corners of the unit square, the k-th `v` line naming the k-th of them
Corners == << <<0, 0, 0>>, <<1, 0, 0>>, <<1, 1, 0>>, <<0, 1, 0>> >>
cornerOf(k) == Corners[((k - 1) % 4) + 1]

\* the face lines of the texts: `f 3 1 2`, `f 1/1/1 2/1/1 3/1/1 4/1/1`,
\* a pentagon given by relative references of which only the first carries a
\* texture coordinate and only the last a normal, `f -1/1 -2 -3 -4 -5//1`,
\* and a line of two references, `f 1 2`
FaceLines ==
    { <<V(3), V(1), V(2)>>,
      <<Ref(1, <<1>>, <<1>>), Ref(2, <<1>>, <<1>>), Ref(3, <<1>>, <<1>>), Ref(4, <<1>>, <<1>>)>>,
      <<Ref(-1, <<1>>, <<>>), V(-2), V(-3), V(-4), Ref(-5, <<>>, <<1>>)>>,
      <<V(1), V(2)>> }

GroupNames == {"body", ""}
MaterialNames == {"Red", "Blue", ""}

\* the step of the loop for one more line that holds vertex data
ObjData(op, frame) ==
    /\ load.pc = "lines"
    /\ load' = frame
    /\ ev' = op
    /\ UNCHANGED <<cacheVars, mtlCache, calls>>

\* the step of the loop for one more line of another kind
ObjLine(op, frame) ==
    /\ load.pc = "lines"
    /\ load.lines < MaxObjLines
    /\ load' = [frame EXCEPT !.lines = load.lines + 1]
    /\ ev' = op
    /\ UNCHANGED <<cacheVars, mtlCache, calls>>

\* case 'v', 285-291
ObjV ==
    /\ load.pc = "lines"
    /\ Len(load.vertices) < 3 * MaxObjVertices
    /\ ObjData([op |-> "obj.v"],
               [load EXCEPT !.vertices = @ \o cornerOf((Len(@) \div 3) + 1)])

\* case 'vn', 293-299; the texts hold one normal, (0, 0, 1), after their
\* `v` lines
ObjVn ==
    /\ load.pc = "lines"
    /\ Len(load.vertices) = 3 * MaxObjVertices
    /\ load.normals = <<>>
    /\ ObjData([op |-> "obj.vn"], [load EXCEPT !.normals = @ \o <<0, 0, 1>>])

\* case 'vt', 300-305; the texts hold one texture coordinate, after their
\* `v` lines
ObjVt ==
    /\ load.pc = "lines"
    /\ Len(load.vertices) = 3 * MaxObjVertices
    /\ load.uvs = <<>>
    /\ ObjData([op |-> "obj.vt"], [load EXCEPT !.uvs = @ \o <<1, 0>>])

\* case 'f', 307-309
ObjF(vertexDefs) ==
    ObjLine([op |-> "obj.f", vertexDefs |-> vertexDefs],
            [load EXCEPT !.currentGroup =
                parseFace(vertexDefs, @, load.currentMaterialName)])

\* case 'g' and case 'o', 311-323; `name` is parts.slice(1).join(' ')
ObjG(name) ==
    LET groups == IF Len(load.currentGroup.vertexIndices) > 0
                  THEN Append(load.groups, load.currentGroup) ELSE load.groups
    IN ObjLine([op |-> "obj.g", name |-> name],
               [load EXCEPT
                  !.groups = groups,
                  !.currentGroup =
                      NewGroup(IF Truthy(name) THEN name ELSE groupNumbered(Len(groups)),
                               load.currentMaterialName)])

\* a usemtl that records the material on the current group whatever faces
\* the group holds: C22 must tell it from the code
usemtl_InPlace(frame, name) ==
    [frame EXCEPT !.currentMaterialName = name,
                  !.currentGroup.materialName = name]

\* case 'usemtl', 333-349; `name` is parts.slice(1).join(' ')
usemtl(frame, name) ==
    LET currentMaterialName == name
        currentGroup == frame.currentGroup
    IN IF Len(currentGroup.vertexIndices) > 0
          /\ currentGroup.materialName /= currentMaterialName
       THEN [frame EXCEPT
               !.currentMaterialName = currentMaterialName,
               !.groups = Append(@, currentGroup),
               !.currentGroup = NewGroup(currentGroup.name, currentMaterialName)]
       ELSE [frame EXCEPT
               !.currentMaterialName = currentMaterialName,
               !.currentGroup.materialName = currentMaterialName]

ObjUsemtl(name) == ObjLine([op |-> "obj.usemtl", name |-> name], usemtl(load, name))

\* an empty line, a comment, mtllib, or a directive the switch has no case for
ObjOther == ObjLine([op |-> "obj.other"], load)

\* the groups after the loop, 357-365
finalGroups(frame) ==
    LET groups == IF Len(frame.currentGroup.vertexIndices) > 0
                  THEN Append(frame.groups, frame.currentGroup) ELSE frame.groups
    IN IF Len(groups) = 0 THEN Append(groups, frame.currentGroup) ELSE groups

\* parseOBJ, 382-450: the assembly built of the groups; the part and the
\* geometry of the k-th group that has faces take the identifiers 2k and
\* 2k + 1 of the parse, the assembly the first
buildAssembly(groups, vertices, normals, uvs, fileName, mtlFile) ==
    LET materials == IF mtlFile = NoMTL THEN <<>> ELSE mtlFile.materials
        built == SelectSeq(groups, LAMBDA group : Len(group.vertexIndices) /= 0)
        results == ArrayOf([k \in 1..Len(built) |->
                              buildGeometry(built[k], vertices, normals, uvs)])
        result(k) == results[k]
        geometryId(k) == Uuids[2 * k]
        partId(k) == Uuids[2 * k + 1]
        geometry(k) ==
            [ id |-> geometryId(k),
              positions |-> result(k).positions,
              normals |-> result(k).normals,
              indices |-> result(k).indices,
              uvs |-> IF Len(result(k).uvs.data) > 0 THEN result(k).uvs ELSE Undefined,
              triangleCount |-> result(k).triangleCount,
              hasBVH |-> FALSE ]
        partMetadata(k) ==
            IF Truthy(built[k].materialName) /\ built[k].materialName \in DOMAIN materials
            THEN [color |-> mtlToCADMaterial(materials[built[k].materialName]).color]
            ELSE Undefined
        part(k) ==
            [ id |-> partId(k), name |-> built[k].name, parentId |-> "null",
              geometryId |-> geometryId(k), visible |-> TRUE, selected |-> FALSE,
              metadata |-> partMetadata(k) ]
        parts == [k \in 1..Len(built) |-> part(k)]
    IN [ id |-> Uuids[1],
         name |-> extractPartName(fileName),
         format |-> "obj",
         parts |-> parts,
         geometries |-> JsMap([k \in 1..Len(built) |-> <<geometryId(k), geometry(k)>>]),
         rootPartIds |-> SeqMap(LAMBDA p : p.id, parts),
         totalTriangles |-> SeqSum([k \in 1..Len(built) |-> result(k).triangleCount]),
         metadata |-> [fileName |-> Join(fileName)] ]

\* the end of the text: the groups are closed and the assembly is returned
ObjBuild(fileName, mtlFile) ==
    /\ load.pc = "lines"
    /\ LET groups == finalGroups(load)
       IN load' = [load EXCEPT
                     !.pc = "done",
                     !.groups = groups,
                     !.assembly = buildAssembly(groups, load.vertices, load.normals,
                                                load.uvs, fileName, mtlFile)]
    /\ ev' = [op |-> "obj.build"]
    /\ UNCHANGED <<cacheVars, mtlCache, calls>>

InitOBJ ==
    /\ mem = NewLRU(LRU_SIZE)
    /\ used = [k \in LruKeys |-> 0]
    /\ tick = 0
    /\ db = "null"
    /\ initPromise = 0
    /\ inits = <<>>
    /\ store = <<>>
    /\ now = FirstClock
    /\ tasks = [t \in Slots |-> IdleTask]
    /\ calls = 0
    /\ faults = 0
    /\ lastSet = [h \in Hashes \cup FileHashes |-> "none"]
    /\ load = ObjFrame
    /\ mtlCache = <<>>
    /\ ev = [op |-> "init"]

NextOBJ ==
    \/ ObjV
    \/ ObjVn
    \/ ObjVt
    \/ \E vertexDefs \in FaceLines : ObjF(vertexDefs)
    \/ \E name \in GroupNames : ObjG(name)
    \/ \E name \in MaterialNames : ObjUsemtl(name)
    \/ ObjOther
    \/ ObjBuild(FileName("gear", "obj"), parseMTL("gearmtl"))

SpecOBJ == InitOBJ /\ [][NextOBJ]_vars

----------------------------------------------------------------------------
(* The STL parser, stl-parser.ts *)

\* what parseSTL reads of a buffer: its byteLength, its first six bytes as
\* characters (pieces), the unsigned integer at offset 80, the number the
\* 32-bit floats of its triangle records begin to count from, and its text
\* as lines, each a keyword and the numbers that follow it
StlBuffer(byteLength, header, u32at80, first, lines) ==
    [ byteLength |-> byteLength, header |-> header, u32at80 |-> u32at80,
      first |-> first, lines |-> lines ]

\* the lines of an ASCII file of one facet
Facet(nz) ==
    << <<"facet normal", 0, 0, nz>>, <<"outer loop">>, <<"vertex", 0, 0, 0>>,
       <<"vertex", 1, 0, 0>>, <<"vertex", 0, 1, 0>>, <<"endloop">>, <<"endfacet">> >>

\* the buffers the parser is given: binary files of zero and of two
\* triangles; a binary file of two triangles followed by fifty more bytes;
\* one that lacks its last two bytes; one cut in its last triangle; binary
\* files whose header reads "solid " or "SOLID ", of the exact length and
\* five bytes longer; ASCII files of two facets, of a facet that is not
\* closed and has a vertex too many, and of under 84 bytes; an ASCII file
\* that begins "solid" and a line break
StlBuffers ==
    [ empty    |-> StlBuffer(84, <<"bin">>, 0, 0, <<>>),
      two      |-> StlBuffer(184, <<"bin">>, 2, 1, <<>>),
      trailing |-> StlBuffer(234, <<"bin">>, 2, 3, <<>>),
      short2   |-> StlBuffer(182, <<"bin">>, 2, 5, <<>>),
      cut      |-> StlBuffer(170, <<"bin">>, 2, 7, <<>>),
      named    |-> StlBuffer(134, <<"solid", " ">>, 1, 2, <<>>),
      padded   |-> StlBuffer(139, <<"SOLID", " ">>, 1, 4, <<>>),
      ascii    |-> StlBuffer(600, <<"solid", " ">>, 538976288, 0,
                       << <<"solid">> >> \o Facet(1) \o Facet(-1) \o << <<"endsolid">> >>),
      open     |-> StlBuffer(400, <<"Solid", " ">>, 538976288, 0,
                       << <<"solid">>, <<"facet normal", 0, 0, 1>>, <<"vertex", 0, 0, 0>>,
                          <<"vertex", 1, 0, 0>>, <<"vertex", 0, 1, 0>>, <<"vertex", 1, 1, 0>> >>),
      brief    |-> StlBuffer(60, <<"solid", " ">>, 0, 0, << <<"solid">>, <<"endsolid">> >>),
      bare     |-> StlBuffer(600, <<"solid", "\n">>, 538976288, 0,
                       << <<"solid">> >> \o Facet(1) \o << <<"endsolid">> >>) ]

\* view.getFloat32(offset, true): the floats of the triangle records count
\* up from buffer.first, modulo 5
getFloat32(buffer, offset) == (buffer.first + (offset - 84) \div 4) % 5

\* isSTLBinary(buffer), 85-110 (a count too large for the expected size to
\* come near byteLength is told first, so that the product stays within the
\* integers TLC computes with)
isSTLBinary(buffer) ==
    IF buffer.byteLength < 84 THEN FALSE
    ELSE IF Join(lowerWord(buffer.header)) = "solid "
    THEN /\ buffer.u32at80 <= (buffer.byteLength + 10) \div 50
         /\ LET expectedBinarySize == 84 + buffer.u32at80 * 50
                diff == buffer.byteLength - expectedBinarySize
            IN (IF diff < 0 THEN -diff ELSE diff) < 10
    ELSE TRUE

\* a parseSTLBinary that takes the number of triangles from the length of
\* the buffer: C25 must tell it from the code
triangleCountOf_Length(buffer) == (buffer.byteLength - 84) \div 50

\* view.getUint32(80, true)
triangleCountOf(buffer) == buffer.u32at80

\* parseSTLBinary(buffer), 115-181; the last byte it reads of triangle i is
\* at 84 + 50 i + 47, and getFloat32 throws a RangeError past the end
parseSTLBinary(buffer) ==
    LET triangleCount == triangleCountOf(buffer)
    IN IF triangleCount > 0 /\ triangleCount - 1 > (buffer.byteLength - 84 - 48) \div 50
       THEN [ok |-> FALSE, error |-> [kind |-> "RangeError"]]
       ELSE [ ok |-> TRUE,
              positions |-> NewFloat32Array(ArrayOf([j \in 1..(triangleCount * 9) |->
                  getFloat32(buffer, 84 + 50 * ((j - 1) \div 9) + 12 + 4 * ((j - 1) % 9))])),
              normals |-> NewFloat32Array(ArrayOf([j \in 1..(triangleCount * 9) |->
                  getFloat32(buffer, 84 + 50 * ((j - 1) \div 9) + 4 * ((j - 1) % 3))])),
              indices |-> NewUint32Array(ArrayOf([j \in 1..(triangleCount * 3) |-> j - 1])),
              triangleCount |-> triangleCount ]

\* typedArray[i] = x: a write past the end is ignored
SetAt(array, i, x) == IF i < Len(array) THEN [array EXCEPT ![i + 1] = x] ELSE array

\* the loop of parseSTLAscii over the lines, 209-243
RECURSIVE stlAsciiLoop(_, _)
stlAsciiLoop(lines, st) ==
    IF lines = <<>> THEN st
    ELSE LET line == Head(lines)
             next ==
               CASE line[1] = "facet normal" ->
                      [st EXCEPT !.currentNormal = <<line[2], line[3], line[4]>>]
                 [] line[1] = "vertex" ->
                      [st EXCEPT
                         !.positions = SetAt(SetAt(SetAt(@, st.vertIndex, line[2]),
                                                   st.vertIndex + 1, line[3]),
                                             st.vertIndex + 2, line[4]),
                         !.normals = SetAt(SetAt(SetAt(@, st.vertIndex, st.currentNormal[1]),
                                                 st.vertIndex + 1, st.currentNormal[2]),
                                           st.vertIndex + 2, st.currentNormal[3]),
                         !.vertIndex = @ + 3]
                 [] line[1] = "endfacet" ->
                      [st EXCEPT
                         !.indices = SetAt(SetAt(SetAt(@, st.triIndex * 3, st.triIndex * 3),
                                                 st.triIndex * 3 + 1, st.triIndex * 3 + 1),
                                           st.triIndex * 3 + 2, st.triIndex * 3 + 2),
                         !.triIndex = @ + 1]
                 [] OTHER -> st
         IN stlAsciiLoop(Tail(lines), next)

\* parseSTLAscii(buffer), 186-246
parseSTLAscii(buffer) ==
    LET triangleCount == Len(SelectSeq(buffer.lines, LAMBDA line : line[1] = "facet normal"))
        zeros(n) == [j \in 1..n |-> 0]
        st == stlAsciiLoop(buffer.lines,
                  [ positions |-> zeros(triangleCount * 9), normals |-> zeros(triangleCount * 9),
                    indices |-> zeros(triangleCount * 3), triIndex |-> 0, vertIndex |-> 0,
                    currentNormal |-> <<0, 0, 1>> ])
    IN [ ok |-> TRUE,
         positions |-> NewFloat32Array(st.positions),
         normals |-> NewFloat32Array(st.normals),
         indices |-> NewUint32Array(st.indices),
         triangleCount |-> triangleCount ]

\* parseSTL(buffer, fileName), 18-80: the assembly it returns, or the error
\* it throws
stlAssembly(buffer, fileName) ==
    LET isBinary == isSTLBinary(buffer)
        result == IF isBinary THEN parseSTLBinary(buffer) ELSE parseSTLAscii(buffer)
        geometryId == Uuids[1]
        partId == Uuids[2]
        assemblyId == Uuids[3]
        geometry == [ id |-> geometryId, positions |-> result.positions,
                      normals |-> result.normals, indices |-> result.indices,
                      uvs |-> Undefined, triangleCount |-> result.triangleCount,
                      hasBVH |-> FALSE ]
        part == [ id |-> partId, name |-> extractPartName(fileName), parentId |-> "null",
                  geometryId |-> geometryId, visible |-> TRUE, selected |-> FALSE,
                  metadata |-> Undefined ]
    IN IF ~result.ok THEN [ok |-> FALSE, error |-> result.error, assembly |-> NoAssembly,
                           isBinary |-> isBinary]
       ELSE [ ok |-> TRUE, error |-> NoError, isBinary |-> isBinary,
              assembly |->
                [ id |-> assemblyId,
                  name |-> extractPartName(fileName),
                  format |-> "stl",
                  parts |-> <<part>>,
                  geometries |-> JsMap(<< <<geometryId, geometry>> >>),
                  rootPartIds |-> <<partId>>,
                  totalTriangles |-> result.triangleCount,
                  fileSize |-> buffer.byteLength,
                  metadata |-> [fileName |-> Join(fileName), units |-> "mm"] ] ]

----------------------------------------------------------------------------
(* The STEP adapter, step-parser.ts *)

\* an attribute of a mesh the kernel returns: its array, of numbers or of
\* triplets of numbers
Flat(xs) == [nested |-> FALSE, array |-> xs]
Nested(xs) == [nested |-> TRUE, array |-> xs]
\* mesh.attributes?.normal?.array || [] of a mesh without the attribute
Absent == Flat(<<>>)

\* the meshes occt.ReadStepFile returns, triangle meshes as the kernel
\* tessellates them: a triangle with normals, a name and a color; the unit
\* square as two triangles, its arrays nested, without normals or name; a
\* mesh without an index; the square as two triangles that wind opposite
\* ways, without normals
OcctMeshes ==
    { [ name |-> "Body", position |-> Flat(<<0, 0, 0, 1, 0, 0, 1, 1, 0>>),
        normal |-> Flat(<<0, 0, 1, 0, 0, 1, 0, 0, 1>>), index |-> Flat(<<0, 1, 2>>),
        color |-> <<255, 0, 0>> ],
      [ name |-> "", position |-> Nested(Corners), normal |-> Absent,
        index |-> Nested(<< <<0, 1, 2>>, <<0, 2, 3>> >>), color |-> <<>> ],
      [ name |-> "Points", position |-> Flat(<<0, 0, 0, 1, 0, 0>>), normal |-> Absent,
        index |-> Absent, color |-> <<>> ],
      [ name |-> "Fold", position |-> Flat(<<0, 0, 0, 1, 0, 0, 1, 1, 0, 0, 1, 0>>),
        normal |-> Absent, index |-> Flat(<<0, 1, 2, 0, 3, 2>>), color |-> <<>> ] }

\* what occt.ReadStepFile returns: a failure, or up to two meshes
OcctResults ==
    {[success |-> FALSE, meshes |-> <<>>], [success |-> TRUE, meshes |-> <<>>]}
    \cup {[success |-> TRUE, meshes |-> <<m>>] : m \in OcctMeshes}
    \cup {[success |-> TRUE, meshes |-> <<m1, m2>>] : m1, m2 \in OcctMeshes}

\* the numbers of an array of numbers or of triplets, 262-277, 280-299, 302-319
RECURSIVE flatten(_)
flatten(xs) == IF xs = <<>> THEN <<>> ELSE Head(xs) \o flatten(Tail(xs))
flattened(attribute) ==
    IF attribute.array /= <<>> /\ attribute.nested THEN flatten(attribute.array)
    ELSE attribute.array

\* normalize(v), 426-433, for a vector that is zero or parallel to an axis
unitVector(v) ==
    CASE v = <<0, 0, 0>> -> v
      [] Cardinality({k \in 1..3 : v[k] /= 0}) = 1 -> <<Sign(v[1]), Sign(v[2]), Sign(v[3])>>

\* computeNormals(positions, indices), 348-409: the unit normal of every
\* triangle is added to its three vertices, and every sum is normalized, (0,
\* 0, 1) standing for a sum of no length
computeNormals(positions, indices) ==
    LET at(i, k) == positions[3 * i + k]
        faceNormal(t) ==
            LET i0 == indices[3 * t - 2]
                i1 == indices[3 * t - 1]
                i2 == indices[3 * t]
                v1 == [k \in 1..3 |-> at(i1, k) - at(i0, k)]
                v2 == [k \in 1..3 |-> at(i2, k) - at(i0, k)]
            IN unitVector(<<v1[2] * v2[3] - v1[3] * v2[2],
                            v1[3] * v2[1] - v1[1] * v2[3],
                            v1[1] * v2[2] - v1[2] * v2[1]>>)
        faces == ArrayOf([t \in 1..(Len(indices) \div 3) |-> faceNormal(t)])
        corners(i) == SelectSeq(ArrayOf([j \in 1..Len(indices) |-> j]),
                                LAMBDA j : indices[j] = i /\ j <= 3 * Len(faces))
        sum(i, k) == SeqSum(SeqMap(LAMBDA j : faces[((j - 1) \div 3) + 1][k], corners(i)))
        normalOf(i) ==
            LET n == <<sum(i, 1), sum(i, 2), sum(i, 3)>>
            IN IF n = <<0, 0, 0>> THEN <<0, 0, 1>> ELSE unitVector(n)
        normals == ArrayOf([i \in 1..(Len(positions) \div 3) |-> normalOf(i - 1)])
    IN ArrayOf([j \in 1..Len(positions) |->
                  IF (j - 1) \div 3 < Len(normals)
                  THEN normals[((j - 1) \div 3) + 1][((j - 1) % 3) + 1] ELSE 0])

\* a conversion that leaves a mesh without normals without them: C23 must
\* tell it from the code
convertOCCTMeshToGeometry_NoNormals(mesh) ==
    [ positions |-> NewFloat32Array(flattened(mesh.position)),
      normals |-> NewFloat32Array(flattened(mesh.normal)),
      indices |-> NewUint32Array(flattened(mesh.index)),
      triangleCount |-> Thirds(Len(flattened(mesh.index))) ]

\* convertOCCTMeshToGeometry(mesh), 223-343
convertOCCTMeshToGeometry(mesh) ==
    LET positions == NewFloat32Array(flattened(mesh.position))
        normals == NewFloat32Array(flattened(mesh.normal))
        indices == NewUint32Array(flattened(mesh.index))
        triangleCount == Thirds(Len(indices.data))
    IN [ positions |-> positions,
         normals |-> IF Len(normals.data) = 0 /\ Len(positions.data) > 0
                     THEN NewFloat32Array(computeNormals(positions.data, indices.data))
                     ELSE normals,
         indices |-> indices,
         triangleCount |-> triangleCount ]

\* `Part_${i + 1}`
partNumbered(i) == <<"Part_1", "Part_2", "Part_3">>[i + 1]

\* the loop of parseSTEP over the meshes, 120-177, from mesh i on (counted
\* from 0): a mesh that holds triangles adds a geometry and a part, which
\* take the next two identifiers of the parse
RECURSIVE stepLoop(_, _, _)
stepLoop(meshes, i, acc) ==
    IF i >= Len(meshes) THEN acc
    ELSE LET mesh == meshes[i + 1]
             geometryId == Uuids[acc.drawn + 1]
             partId == Uuids[acc.drawn + 2]
             geometry(meshResult) ==
                 [ id |-> geometryId, positions |-> meshResult.positions,
                   normals |-> meshResult.normals, indices |-> meshResult.indices,
                   uvs |-> Undefined, triangleCount |-> meshResult.triangleCount,
                   hasBVH |-> FALSE ]
             part ==
                 [ id |-> partId,
                   name |-> IF Truthy(mesh.name) THEN mesh.name ELSE partNumbered(i),
                   parentId |-> "null",
                   geometryId |-> geometryId, visible |-> TRUE, selected |-> FALSE,
                   metadata |-> IF mesh.color /= <<>>
                                THEN [color |-> [c \in 1..3 |-> mesh.color[c] \div 255]]
                                ELSE Undefined ]
             next(meshResult) ==
                 IF meshResult.triangleCount > 0
                 THEN [ geometries |-> Append(acc.geometries, geometry(meshResult)),
                        parts |-> Append(acc.parts, part),
                        rootPartIds |-> Append(acc.rootPartIds, partId),
                        totalTriangles |-> acc.totalTriangles + meshResult.triangleCount,
                        drawn |-> acc.drawn + 2 ]
                 ELSE acc
         IN Once(Once(convertOCCTMeshToGeometry(mesh), next),
                 LAMBDA after : stepLoop(meshes, i + 1, after))

\* parseSTEP(buffer, fileName), 77-91 and 110-198: the assembly built of the
\* meshes of `result`, or the error thrown
stepAssembly(result, fileName) ==
    LET meshes == result.meshes
        thrown(kind) == [ok |-> FALSE, error |-> [kind |-> kind], assembly |-> NoAssembly]
        assembly(built) ==
            [ id |-> Uuids[built.drawn + 1],
              name |-> extractPartName(fileName),
              format |-> "step",
              parts |-> built.parts,
              geometries |-> JsMap([k \in 1..Len(built.geometries) |->
                                      <<built.geometries[k].id, built.geometries[k]>>]),
              rootPartIds |-> built.rootPartIds,
              totalTriangles |-> built.totalTriangles,
              metadata |-> [fileName |-> Join(fileName), units |-> "mm"] ]
    IN IF ~result.success
       THEN thrown("Failed to read STEP file or file contains no geometry")
       ELSE IF Len(meshes) = 0 THEN thrown("No geometry found in STEP file")
       ELSE [ ok |-> TRUE, error |-> NoError,
              assembly |->
                Once(stepLoop(meshes, 0, [geometries |-> <<>>, parts |-> <<>>,
                                          rootPartIds |-> <<>>, totalTriangles |-> 0,
                                          drawn |-> 0]),
                     assembly) ]

----------------------------------------------------------------------------
(* The parsers applied to their inputs, and the cache to their results *)

\* parseSTL(buffer, fileName) is called and returns or throws
StlParse ==
    /\ load.pc = "stl"
    /\ LET r == stlAssembly(StlBuffers[load.bytes], load.fileName)
       IN load' = [load EXCEPT !.pc = "done", !.ok = r.ok, !.assembly = r.assembly,
                               !.isBinary = r.isBinary]
    /\ ev' = [op |-> "stl.parse"]
    /\ UNCHANGED <<cacheVars, mtlCache, calls>>

\* parseSTEP(buffer, fileName) is called and returns or throws
StepParse ==
    /\ load.pc = "step"
    /\ LET r == stepAssembly(load.result, load.fileName)
       IN load' = [load EXCEPT !.pc = "done", !.ok = r.ok, !.assembly = r.assembly]
    /\ ev' = [op |-> "step.parse"]
    /\ UNCHANGED <<cacheVars, mtlCache, calls>>

\* the assembly a parser returned is stored (set(), 205-211: serializeAssembly)
\* and read back from the durable tier (get(), 177-181: deserializeAssembly)
CacheRoundTrip ==
    /\ load.pc = "done"
    /\ load.assembly /= NoAssembly
    /\ load' = [load EXCEPT !.pc = "cached",
                            !.assembly = deserializeAssembly(serializeAssembly(@))]
    /\ ev' = [op |-> "cache.get"]
    /\ UNCHANGED <<cacheVars, mtlCache, calls>>

\* the calls of the parsers: parseOBJ at the first line of its text, parseSTL
\* on a buffer, parseSTEP on what the kernel reads
ParseFrames ==
    {ObjFrame}
    \cup { [pc |-> "stl", bytes |-> bytes, fileName |-> FileName("bolt", "stl"), ok |-> FALSE,
            isBinary |-> FALSE, assembly |-> NoAssembly] : bytes \in DOMAIN StlBuffers }
    \cup { [pc |-> "step", result |-> result, fileName |-> FileName("pump", "stp"),
            ok |-> FALSE, assembly |-> NoAssembly] : result \in OcctResults }

InitGeometry ==
    /\ mem = NewLRU(LRU_SIZE)
    /\ used = [k \in LruKeys |-> 0]
    /\ tick = 0
    /\ db = "null"
    /\ initPromise = 0
    /\ inits = <<>>
    /\ store = <<>>
    /\ now = FirstClock
    /\ tasks = [t \in Slots |-> IdleTask]
    /\ calls = 0
    /\ faults = 0
    /\ lastSet = [h \in Hashes \cup FileHashes |-> "none"]
    /\ load \in ParseFrames
    /\ mtlCache = <<>>
    /\ ev = [op |-> "init"]

NextGeometry ==
    \/ NextOBJ
    \/ StlParse
    \/ StepParse
    \/ CacheRoundTrip

SpecGeometry == InitGeometry /\ [][NextGeometry]_vars

----------------------------------------------------------------------------
(* Claims about the parsers *)

\* the index of the k-th listed vertex of a face line, k counted from 0:
\* OBJ references count from 1
listed(vertexDefs, k) == vertexDefs[k + 1].v - 1

\* C21: a face line of n >= 3 references appends exactly n - 2 triangles to
\* the current group, the i-th being (v0, vi, v(i+1)) for i = 1 .. n - 2: each
\* holds the first listed vertex, all n vertices are covered, and what the
\* group and the closed groups held before is kept
C21_FanTriangulation ==
    [][ev'.op = "obj.f" /\ Len(ev'.vertexDefs) >= 3
       => LET vertexDefs == ev'.vertexDefs
              n == Len(vertexDefs)
              before == load.currentGroup.vertexIndices
              after == load'.currentGroup.vertexIndices
              appended == SubSeq(after, Len(before) + 1, Len(after))
          IN /\ load'.groups = load.groups
             /\ load'.currentGroup.name = load.currentGroup.name
             /\ SubSeq(after, 1, Len(before)) = before
             /\ Len(appended) = 3 * (n - 2)
             /\ \A i \in 1..(n - 2) :
                   SubSeq(appended, 3 * i - 2, 3 * i)
                     = <<listed(vertexDefs, 0), listed(vertexDefs, i), listed(vertexDefs, i + 1)>>
             /\ Range(appended) = {listed(vertexDefs, k) : k \in 0..(n - 1)}]_vars

\* the scenario of the specification: after the four `v` lines of the unit
\* square, a face line of four references has put two triangles, (0, 1, 2)
\* and (0, 2, 3), into the group
C21_Witness ==
    /\ ev.op = "obj.f"
    /\ Len(ev.vertexDefs) = 4
    /\ Len(load.vertices) = 12
    /\ load.currentGroup.vertexIndices = <<0, 1, 2, 0, 2, 3>>

\* every face of the group was declared while the material the group records
\* was the active one
OneMaterial(group) == \A k \in 1..Len(group.under) : group.under[k] = group.materialName

\* the groups of the frame that hold faces, in the order they were opened
withFaces(groups) == SelectSeq(groups, LAMBDA group : Len(group.vertexIndices) > 0)

\* C22: after any sequence of g/o, usemtl and f lines no group, closed or
\* current, holds a face declared under another material than the one it
\* records; a usemtl that names another material than that of a current group
\* with faces closes the group and opens an empty one of the same name under
\* the new material; and the parts parseOBJ returns are these groups, one
\* part for each group that holds faces, named and colored after it
C22_OneMaterialPerGroup ==
    [][/\ \A k \in 1..Len(load'.groups) : OneMaterial(load'.groups[k])
       /\ load'.pc = "lines" => OneMaterial(load'.currentGroup)
       /\ ev'.op = "obj.usemtl" /\ Len(load.currentGroup.vertexIndices) > 0
            /\ load.currentGroup.materialName /= ev'.name
          => /\ load'.groups = Append(load.groups, load.currentGroup)
             /\ load'.currentGroup = NewGroup(load.currentGroup.name, ev'.name)
       /\ ev'.op = "obj.build"
          => LET emitted == withFaces(load'.groups)
                 parts == load'.assembly.parts
             IN /\ withFaces(Append(load.groups, load.currentGroup)) = emitted
                /\ Len(parts) = Len(emitted)
                /\ \A k \in 1..Len(parts) :
                      /\ parts[k].name = emitted[k].name
                      /\ (parts[k].metadata /= Undefined) = (emitted[k].materialName = "Red")
                      /\ load'.assembly.geometries.entries[k][2].indices.data
                           = [i \in 1..Len(emitted[k].vertexIndices) |-> i - 1]
      ]_vars

\* a text with a face, a usemtl and another face has been parsed: two parts
\* of the same name, the first of faces declared before the usemtl, the second
\* of the faces declared under the material it names
C22_Witness ==
    /\ ev.op = "obj.build"
    /\ Len(load.assembly.parts) = 2
    /\ load.assembly.parts[1].name = load.assembly.parts[2].name
    /\ load.groups[1].materialName = ""
    /\ load.groups[2].materialName = "Red"
    /\ load.assembly.parts[1].metadata = Undefined
    /\ load.assembly.parts[2].metadata = [color |-> <<10, 10, 10>>]

\* the geometries of an assembly
GeometriesOf(assembly) == {assembly.geometries.entries[k][2] :
                              k \in 1..Len(assembly.geometries.entries)}

\* indices.length = 3 * triangleCount with triangleCount whole, every index
\* below positions.length / 3, and as many normals as positions
WellFormed(geometry) ==
    /\ Len(geometry.indices.data) % 3 = 0
    /\ geometry.triangleCount * 3 = Len(geometry.indices.data)
    /\ \A k \in 1..Len(geometry.indices.data) :
          geometry.indices.data[k] * 3 < Len(geometry.positions.data)
    /\ Len(geometry.normals.data) = Len(geometry.positions.data)

\* C23: every geometry of an assembly that parseSTL, parseOBJ or parseSTEP
\* returns is well formed
C23_GeometryWellFormed ==
    load.pc = "done" /\ load.assembly /= NoAssembly
    => \A geometry \in GeometriesOf(load.assembly) : WellFormed(geometry)

\* parseSTEP has returned the unit square the kernel gave as two triangles
\* without normals: four vertices, six indices, twelve normals computed
C23_Witness ==
    /\ load.pc = "done" /\ ev.op = "step.parse" /\ load.ok
    /\ Len(load.result.meshes) = 1
    /\ load.result.meshes[1].normal = Absent
    /\ \E geometry \in GeometriesOf(load.assembly) :
          /\ geometry.triangleCount = 2
          /\ Len(geometry.positions.data) = 12
          /\ Len(geometry.normals.data) = 12
          /\ geometry.indices.data = <<0, 1, 2, 0, 2, 3>>

\* Map.prototype.has
has(map, key) ==
    map.kind = "Map" /\ \E k \in 1..Len(map.entries) : map.entries[k][1] = key

PartsOf(assembly) == {assembly.parts[k] : k \in 1..Len(assembly.parts)}

\* every geometryId is a key of the geometry lookup, every non-null parentId
\* is the id of another part, every root id is the id of a part without parent
Linked(assembly) ==
    /\ \A part \in PartsOf(assembly) : has(assembly.geometries, part.geometryId)
    /\ \A part \in PartsOf(assembly) :
          part.parentId /= "null"
          => \E other \in PartsOf(assembly) :
                other /= part /\ other.id = part.parentId
    /\ \A k \in 1..Len(assembly.rootPartIds) :
          \E part \in PartsOf(assembly) :
              part.id = assembly.rootPartIds[k] /\ part.parentId = "null"

\* C24: the assembly a parser returned, and the assembly the cache gives
\* back for it, are linked
C24_AssemblyLinked ==
    load.pc \in {"done", "cached"} /\ load.assembly /= NoAssembly
    => Linked(load.assembly)

\* the cache has given back an assembly of two parts, each with its own
\* geometry under its own key, both roots
C24_Witness ==
    /\ load.pc = "cached" /\ ev.op = "cache.get"
    /\ Len(load.assembly.parts) = 2
    /\ Len(load.assembly.rootPartIds) = 2
    /\ load.assembly.parts[1].geometryId /= load.assembly.parts[2].geometryId
    /\ Len(load.assembly.geometries.entries) = 2

\* parseSTL has returned for a buffer it treated as binary
BinaryParsed ==
    /\ load.pc = "done" /\ ev.op = "stl.parse"
    /\ load.ok /\ load.isBinary

\* C25: for a buffer treated as binary the geometry's triangleCount and the
\* assembly's totalTriangles are the count written at offset 80; they are
\* (byteLength - 84) / 50 when the buffer is as long as that count says
C25_CountFromHeader ==
    BinaryParsed
    => LET buffer == StlBuffers[load.bytes]
           geometry == load.assembly.geometries.entries[1][2]
       IN /\ geometry.triangleCount = buffer.u32at80
          /\ load.assembly.totalTriangles = buffer.u32at80
          /\ buffer.byteLength = 84 + 50 * buffer.u32at80
             => /\ (buffer.byteLength - 84) % 50 = 0
                /\ geometry.triangleCount = (buffer.byteLength - 84) \div 50
                /\ load.assembly.totalTriangles = (buffer.byteLength - 84) \div 50

\* C25 as stated: for every buffer treated as binary both counts are
\* (byteLength - 84) / 50
C25_CountFromLength ==
    BinaryParsed
    => LET buffer == StlBuffers[load.bytes]
           geometry == load.assembly.geometries.entries[1][2]
       IN /\ geometry.triangleCount * 50 = buffer.byteLength - 84
          /\ load.assembly.totalTriangles * 50 = buffer.byteLength - 84

\* a binary buffer of two triangles, 184 bytes long, has been parsed
C25_Witness ==
    /\ BinaryParsed
    /\ StlBuffers[load.bytes].byteLength = 184
    /\ StlBuffers[load.bytes].u32at80 = 2
    /\ load.assembly.totalTriangles = 2
    /\ load.assembly.geometries.entries[1][2].triangleCount = 2

----------------------------------------------------------------------------
(* The digest of a buffer, geometry-cache.ts 140-160 *)

\* the bytes a buffer is made of, and the buffers: every sequence of up to
\* MaxBytes of them
ByteValues == {0, 1, 97, 255}
MaxBytes == 2
ByteBuffers == UNION {[1..n -> ByteValues] : n \in 0..MaxBytes}

\* a 32-bit number is kept as two 16-bit halves, <<high, low>>
Half == 65536
Halves(high, low) == <<high, low>>

\* a ^ b on eight bits
RECURSIVE xor8(_, _, _)
xor8(a, b, bits) ==
    IF bits = 0 THEN 0
    ELSE (IF a % 2 = b % 2 THEN 0 ELSE 1) + 2 * xor8(a \div 2, b \div 2, bits - 1)

\* hash ^= view[i]: the operands as 32-bit patterns; the result is the signed
\* number of that pattern, kept as its sign and the halves of its magnitude
xorByte(hash, byte) ==
    LET low == hash[2] - (hash[2] % 256) + xor8(hash[2] % 256, byte, 8)
        high == hash[1]
    IN IF high < 32768 THEN [negative |-> FALSE, magnitude |-> Halves(high, low)]
       ELSE [ negative |-> TRUE,
              magnitude |-> IF low = 0 THEN Halves(Half - high, 0)
                            ELSE Halves(Half - 1 - high, Half - low) ]

\* hash * 16777619 as the double the multiplication yields: the product of
\* the magnitude with 256 * 65536 + 403, in halves, rounded to the 53 bits a
\* double holds (nearest, ties to even); >>> 0 keeps its low 32 bits
timesPrime(signed) ==
    LET a == signed.magnitude[1]
        b == signed.magnitude[2]
        t0 == b * 403
        t1 == a * 403 + b * 256 + (t0 \div Half)
        top == a * 256 + (t1 \div Half)
        half1 == t1 % Half
        half0 == t0 % Half
        \* the spacing of doubles at the product's size
        ulp == IF top >= 8388608 THEN 8 ELSE IF top >= 4194304 THEN 4
               ELSE IF top >= 2097152 THEN 2 ELSE 1
        rest == half0 % ulp
        kept == half0 - rest
        up == \/ 2 * rest > ulp
              \/ 2 * rest = ulp /\ (half0 \div ulp) % 2 = 1
        low == IF up THEN kept + ulp ELSE kept
        r0 == low % Half
        r1 == (half1 + (low \div Half)) % Half
    IN IF ~signed.negative \/ (r0 = 0 /\ r1 = 0) THEN Halves(r1, r0)
       ELSE IF r0 = 0 THEN Halves(Half - r1, 0)
       ELSE Halves(Half - 1 - r1, Half - r0)

HexDigits == <<"0", "1", "2", "3", "4", "5", "6", "7", "8", "9",
               "a", "b", "c", "d", "e", "f">>

\* the hexadecimal digits of n, n > 0, without leading zeros
RECURSIVE hex(_)
hex(n) == IF n = 0 THEN "" ELSE hex(n \div 16) \o HexDigits[(n % 16) + 1]

\* the last four hexadecimal digits of n
hex4(n) ==
    HexDigits[((n \div 4096) % 16) + 1] \o HexDigits[((n \div 256) % 16) + 1]
    \o HexDigits[((n \div 16) % 16) + 1] \o HexDigits[(n % 16) + 1]

\* hash.toString(16)
toString16(hash) ==
    IF hash[1] = 0 THEN (IF hash[2] = 0 THEN "0" ELSE hex(hash[2]))
    ELSE hex(hash[1]) \o hex4(hash[2])

\* the loop of the fallback, from byte i on
RECURSIVE fnvLoop(_, _, _)
fnvLoop(view, i, hash) ==
    IF i > Len(view) THEN hash
    ELSE fnvLoop(view, i + 1, timesPrime(xorByte(hash, view[i])))

\* the fallback: 2166136261 = 0x811c9dc5, then xor and multiply per byte
simpleHash(buffer) == [hex |-> toString16(fnvLoop(buffer, 1, Halves(33052, 40389)))]

\* crypto.subtle.digest('SHA-256', buffer) as 64 hexadecimal characters:
\* a function of the bytes alone, with a value per buffer
sha256Hex(buffer) == [sha256 |-> buffer, chars |-> 64]

\* hashFile(buffer): the digest when crypto.subtle is there and digest()
\* resolves; the fallback when it is missing or digest() rejects (the catch)
hashFileOf(buffer, subtle, rejects) ==
    IF subtle /\ ~rejects THEN sha256Hex(buffer) ELSE simpleHash(buffer)

\* one process: whether it has crypto.subtle, the buffer, and what the calls
\* of hashFile on it have returned so far
HashFrames ==
    { [pc |-> "hash", buffer |-> buffer, subtle |-> subtle, digests |-> <<>>] :
        buffer \in ByteBuffers, subtle \in BOOLEAN }

HashCall(subtle, rejects, op) ==
    /\ load.pc = "hash"
    /\ load.subtle = subtle
    /\ Len(load.digests) < MaxCalls
    /\ load' = [load EXCEPT
                  !.digests = Append(@, hashFileOf(load.buffer, subtle, rejects))]
    /\ ev' = [op |-> op]
    /\ UNCHANGED <<cacheVars, mtlCache, calls>>

\* hashFile where digest() resolves
HashDigest == HashCall(TRUE, FALSE, "hash.digest")

\* hashFile where digest() rejects and the catch falls through
HashCaught == HashCall(TRUE, TRUE, "hash.caught")

\* hashFile where crypto.subtle is missing
HashSimple == HashCall(FALSE, FALSE, "hash.simple")

InitHash ==
    /\ mem = NewLRU(LRU_SIZE)
    /\ used = [k \in LruKeys |-> 0]
    /\ tick = 0
    /\ db = "null"
    /\ initPromise = 0
    /\ inits = <<>>
    /\ store = <<>>
    /\ now = FirstClock
    /\ tasks = [t \in Slots |-> IdleTask]
    /\ calls = 0
    /\ faults = 0
    /\ lastSet = [h \in Hashes \cup FileHashes |-> "none"]
    /\ mtlCache = <<>>
    /\ load \in HashFrames
    /\ ev = [op |-> "none"]

NextHash == HashDigest \/ HashCaught \/ HashSimple

SpecHash == InitHash /\ [][NextHash]_vars

\* C26: all calls of hashFile on one buffer within one process have returned
\* the same digest string
C26_SameDigest ==
    load.pc = "hash"
    => \A i, j \in 1..Len(load.digests) : load.digests[i] = load.digests[j]

----------------------------------------------------------------------------
(* parseMTL applied to a text, line by line *)

MaxMtlLines == 3

\* the components written on a color line
ColorTokens == { <<"0", "0", "0">>, <<"1", "0", "0">>,
                 <<"0.5", "0.5", "0.5">>, <<"1", "1", "1">> }

\* the lines of the texts: newmtl with and without a name, the three color
\* lines, and a line of another directive
MtlLines ==
    { <<"newmtl", "Red">>, <<"newmtl", "Steel">>, <<"newmtl">>, <<"Ns", "1">> }
    \cup { <<cmd>> \o tokens : cmd \in {"Ka", "Kd", "Ks"}, tokens \in ColorTokens }

NothingWritten == [ka |-> <<>>, kd |-> <<>>, ks |-> <<>>]

\* the numbers a color line writes
writtenOn(parts) == <<parseFloat(parts[2]), parseFloat(parts[3]), parseFloat(parts[4])>>

\* history: what the color lines of the current material have written
noteWritten(written, parts) ==
    CASE parts[1] = "newmtl" -> NothingWritten
      [] parts[1] = "Ka" -> [written EXCEPT !.ka = writtenOn(parts)]
      [] parts[1] = "Kd" -> [written EXCEPT !.kd = writtenOn(parts)]
      [] parts[1] = "Ks" -> [written EXCEPT !.ks = writtenOn(parts)]
      [] OTHER -> written

MtlFrame ==
    [ pc |-> "mtl", lines |-> 0,
      st |-> [materials |-> <<>>, currentMaterial |-> NoMaterial],
      written |-> NothingWritten, writtenOf |-> <<>> ]

\* the loop takes the next line of the text
MtlLine(parts) ==
    /\ load.pc = "mtl"
    /\ load.lines < MaxMtlLines
    /\ LET closing == parts[1] = "newmtl" /\ load.st.currentMaterial /= NoMaterial
           name == load.st.currentMaterial.name
       IN load' = [load EXCEPT
             !.lines = @ + 1,
             !.st = mtlLine(@, parts),
             !.written = IF load.st.currentMaterial = NoMaterial
                            /\ parts[1] /= "newmtl" THEN @
                         ELSE noteWritten(@, parts),
             !.writtenOf = IF closing
                           THEN [n \in DOMAIN @ \cup {name} |->
                                   IF n = name THEN load.written ELSE @[n]]
                           ELSE @]
    /\ ev' = [op |-> "mtl.line", parts |-> parts]
    /\ UNCHANGED <<cacheVars, mtlCache, calls>>

MtlNewmtl == \E parts \in {l \in MtlLines : l[1] = "newmtl"} : MtlLine(parts)
MtlKa == \E parts \in {l \in MtlLines : l[1] = "Ka"} : MtlLine(parts)
MtlKd == \E parts \in {l \in MtlLines : l[1] = "Kd"} : MtlLine(parts)
MtlKs == \E parts \in {l \in MtlLines : l[1] = "Ks"} : MtlLine(parts)
MtlOther == \E parts \in {l \in MtlLines : l[1] = "Ns"} : MtlLine(parts)

\* the end of the text: the last material is saved and the table returned
MtlEnd ==
    /\ load.pc = "mtl"
    /\ LET open == load.st.currentMaterial /= NoMaterial
           name == load.st.currentMaterial.name
       IN load' = [load EXCEPT
             !.pc = "done",
             !.st = [materials |-> saved(@), currentMaterial |-> @.currentMaterial],
             !.writtenOf = IF open
                           THEN [n \in DOMAIN @ \cup {name} |->
                                   IF n = name THEN load.written ELSE @[n]]
                           ELSE @]
    /\ ev' = [op |-> "mtl.end"]
    /\ UNCHANGED <<cacheVars, mtlCache, calls>>

InitMTL ==
    /\ mem = NewLRU(LRU_SIZE)
    /\ used = [k \in LruKeys |-> 0]
    /\ tick = 0
    /\ db = "null"
    /\ initPromise = 0
    /\ inits = <<>>
    /\ store = <<>>
    /\ now = FirstClock
    /\ tasks = [t \in Slots |-> IdleTask]
    /\ calls = 0
    /\ faults = 0
    /\ lastSet = [h \in Hashes \cup FileHashes |-> "none"]
    /\ mtlCache = <<>>
    /\ load = MtlFrame
    /\ ev = [op |-> "none"]

NextMTL == MtlNewmtl \/ MtlKa \/ MtlKd \/ MtlKs \/ MtlOther \/ MtlEnd

SpecMTL == InitMTL /\ [][NextMTL]_vars

\* C27: every material of the table parseMTL returns holds, as ambient,
\* diffuse and specular color, the numbers written on its Ka, Kd and Ks
\* lines, and its base color is the diffuse color written
C27_ColorsAsWritten ==
    load.pc = "done"
    => \A name \in DOMAIN load.st.materials :
          LET material == load.st.materials[name]
              written == load.writtenOf[name]
          IN /\ written.ka /= <<>> => material.ambient = written.ka
             /\ written.kd /= <<>> => material.diffuse = written.kd
             /\ written.ks /= <<>> => material.specular = written.ks
             /\ written.kd /= <<>> => mtlToCADMaterial(material).color = written.kd

----------------------------------------------------------------------------
(* Claims about the loader and the cache *)

\* C28: a load of a file that is not a material file, once resolved, has
\* returned an assembly whose format is detectFormat(fileName, bytes) and
\* whose name and metadata.fileName come from the fileName of this load
C28_NamedAfterThisLoad ==
    ( /\ load.pc = "done"
      /\ detectFormat(load.file.name, load.file.bytes) /= "mtl" )
    => /\ load.result.format = detectFormat(load.file.name, load.file.bytes)
       /\ load.result.name = extractPartName(load.file.name)
       /\ load.result.metadata.fileName = Join(load.file.name)

\* getParserRecommendation(format, fileName) for a name that does not end in
\* .max: whether it returns a text or null
hasRecommendation(format) == format \in {"mtl", "iges", "unknown"}

\* the errors parseByFormat throws where it has no parser to dispatch to
MissingParser ==
    { "GLTF support requires Three.js GLTFLoader", "Parser not implemented",
      "MTL files must be loaded with their OBJ file" }

\* C29: a load that missed the cache and reached the isFormatSupported test
\* (its file is not a material file) never fails with a missing-parser error
\* of parseByFormat when the test accepts the detected tag; when the test
\* refuses it, the load fails with 'Format not supported' and the
\* recommendation of the format, and no parser has run
C29_SupportedIffParseable ==
    LET format == detectFormat(load.file.name, load.file.bytes)
    IN ( /\ load.pc \in {"done", "failed"}
         /\ ~load.fromCache
         /\ <<load.file.name, "hash">> \in load.did
         /\ load.error.kind /= "cache"
         /\ format /= "mtl" )
       => /\ isFormatSupported(format)
             => ~(load.pc = "failed" /\ load.error.kind \in MissingParser)
          /\ ~isFormatSupported(format)
             => /\ load.pc = "failed"
                /\ load.error.kind = "Format not supported"
                /\ hasRecommendation(format)
                /\ <<load.file.name, "parse">> \notin load.did

\* C30: the recency list of the memory tier holds exactly the keys of the
\* map, each once, and never more of them than the capacity
C30_OrderMatchesMap ==
    /\ {mem.order[i] : i \in 1..Len(mem.order)} = DOMAIN mem.cache
    /\ \A i, j \in 1..Len(mem.order) : mem.order[i] = mem.order[j] => i = j
    /\ Len(mem.order) <= mem.maxSize
    /\ Cardinality(DOMAIN mem.cache) <= mem.maxSize

\* three different keys have been set one after the other into a tier of
\* capacity two: the third set() evicted, and the tier is full
C30_Witness ==
    /\ ev.op = "lru.set"
    /\ tick = 3
    /\ Cardinality({k \in LruKeys : used[k] > 0}) = 3
    /\ Len(mem.order) = mem.maxSize
    /\ ev.key = mem.order[Len(mem.order)]

\* C31: the durable tier holds at most one record per content hash
C31_OneRecordPerHash ==
    \A i, j \in DOMAIN store : store[i].hash = store[j].hash => i = j

----------------------------------------------------------------------------
(* clear() while set() calls are in flight, geometry-cache.ts 194-235 *)

\* the assemblies the callers insert, each under its own hash
ClearedPairs == { <<"h1", "a1">>, <<"h2", "a2">> }

\* what the callers have done so far: the ids passed to set() before clear()
\* was called, the ids passed to set() since, and whether clear() was called
NoCalls == [before |-> {}, after |-> {}, clear |-> "no"]

InitClear ==
    /\ mem = NewLRU(LRU_SIZE)
    /\ used = [k \in LruKeys |-> 0]
    /\ tick = 0
    /\ db \in {"null", "open"}
    /\ initPromise = 0
    /\ inits = <<>>
    /\ store = <<>>
    /\ now = FirstClock
    /\ tasks = [t \in Slots |-> IdleTask]
    /\ calls = 0
    /\ faults = MaxFaults
    /\ lastSet = [h \in Hashes |-> "none"]
    /\ load = NoCalls
    /\ mtlCache = <<>>
    /\ ev = [op |-> "init"]

\* a caller calls set(hash, assembly) without waiting for the calls made
\* before it
ClearSet(t, pair) ==
    /\ Called
    /\ GeometryCache_set(t, pair[1], CHOOSE a \in Assemblies : a.id = pair[2])
    /\ load' = IF load.clear = "no"
               THEN [load EXCEPT !.before = @ \cup {pair[2]}]
               ELSE [load EXCEPT !.after = @ \cup {pair[2]}]
    /\ mtlCache' = mtlCache

\* a caller calls clear(), once
ClearCall(t) ==
    /\ load.clear = "no"
    /\ Called
    /\ GeometryCache_clear(t)
    /\ load' = [load EXCEPT !.clear = "called"]
    /\ mtlCache' = mtlCache

\* no request fails in these sessions
NextClear ==
    \/ \E t \in Slots, pair \in ClearedPairs : ClearSet(t, pair)
    \/ \E t \in Slots : ClearCall(t)
    \/ \E p \in DOMAIN inits : OpenDBResolved(p, TRUE)
    \/ \E p \in DOMAIN inits : SweepDone(p)
    \/ \E t \in Slots : SetAfterInit(t)
    \/ \E t \in Slots : SetSpace(t)
    \/ \E t \in Slots : SetPut(t)
    \/ \E t \in Slots : ClearAfterInit(t)
    \/ \E t \in Slots : ClearDone(t)

SpecClear == InitClear /\ [][NextClear]_vars

\* clear() has been called and has resolved
clearResolved ==
    /\ load.clear = "called"
    /\ \A t \in Slots : tasks[t].op /= "clear"

\* the assembly with this id is in neither tier
inNeitherTier(id) ==
    /\ \A h \in DOMAIN mem.cache : mem.cache[h].id /= id
    /\ id \notin DOMAIN store

\* C32: once clear() has resolved, every assembly passed to a set() that was
\* called before clear() was called, and not passed to set() again since,
\* is absent from the memory tier and from the durable tier
C32_ClearedAbsent ==
    clearResolved => \A id \in load.before \ load.after : inNeitherTier(id)

----------------------------------------------------------------------------
(* dispose(), geometry-cache.ts 290-295, while init() is in flight, 112-135 *)

\* whether dispose() was called and init() has not been invoked since
NotDisposed == [disposed |-> FALSE]

InitDispose ==
    /\ mem = NewLRU(LRU_SIZE)
    /\ used = [k \in LruKeys |-> 0]
    /\ tick = 0
    /\ db = "null"
    /\ initPromise = 0
    /\ inits = <<>>
    /\ store \in InitialStores
    /\ now = FirstClock
    /\ tasks = [t \in Slots |-> IdleTask]
    /\ calls = 0
    /\ faults = MaxFaults
    /\ lastSet = [h \in Hashes |-> "none"]
    /\ load = NotDisposed
    /\ mtlCache = <<>>
    /\ ev = [op |-> "init"]

\* get(), set() and clear() each invoke init()
initInvoked ==
    /\ calls < MaxCalls
    /\ calls' = calls + 1
    /\ load' = [load EXCEPT !.disposed = FALSE]
    /\ mtlCache' = mtlCache

DisposeGet(t, hash) ==
    /\ ~LRU_has(mem, hash)
    /\ GeometryCache_get(t, hash)
    /\ initInvoked

DisposeSet(t, hash, id) ==
    /\ GeometryCache_set(t, hash, CHOOSE a \in Assemblies : a.id = id)
    /\ initInvoked

DisposeClear(t) ==
    /\ GeometryCache_clear(t)
    /\ initInvoked

\* dispose(), 290-295, called while every call in flight is still awaiting
\* init()
dispose ==
    /\ ~load.disposed
    /\ calls > 0
    /\ \A t \in Slots : IF tasks[t].op = "idle" THEN TRUE ELSE tasks[t].pc = "init"
    /\ mem' = LRU_clear(mem)
    /\ db' = "null"
    /\ initPromise' = 0
    /\ load' = [load EXCEPT !.disposed = TRUE]
    /\ ev' = [op |-> "dispose"]
    /\ UNCHANGED <<inits, store, now, tasks, calls, faults, used, tick, lastSet, mtlCache>>

\* no request fails in these sessions
NextDispose ==
    \/ \E t \in Slots : DisposeGet(t, "h1")
    \/ \E t \in Slots : DisposeSet(t, "h1", "a1")
    \/ \E t \in Slots : DisposeClear(t)
    \/ dispose
    \/ \E p \in DOMAIN inits : OpenDBResolved(p, TRUE)
    \/ \E p \in DOMAIN inits : SweepDone(p)
    \/ \E t \in Slots : GetAfterInit(t)
    \/ \E t \in Slots : GetRead(t)
    \/ \E t \in Slots : SetAfterInit(t)
    \/ \E t \in Slots : SetSpace(t)
    \/ \E t \in Slots : SetPut(t)
    \/ \E t \in Slots : ClearAfterInit(t)
    \/ \E t \in Slots : ClearDone(t)

SpecDispose == InitDispose /\ [][NextDispose]_vars

\* the openDB() requests that have not settled
opening == {p \in DOMAIN inits : inits[p] = "opening"}

\* C33: after dispose(), db is null until init() is next invoked, also when
\* an initialization was in flight at dispose(); and at most one openDB() is
\* in flight at any time
C33_ClosedAfterDispose ==
    /\ load.disposed => db = "null"
    /\ Cardinality(opening) <= 1

----------------------------------------------------------------------------
(* Normals and texture coordinates of the OBJ groups, part_006 460-562 *)

\* the k-th entry of a pool of entries of `width` numbers, k counted from 1
poolEntry(pool, width, k) == SubSeq(pool, width * (k - 1) + 1, width * k)

\* the reference names an entry the pool holds
inPool(part, pool, width) ==
    IF part = <<>> THEN FALSE ELSE part[1] >= 1 /\ width * part[1] <= Len(pool)

\* the normal and the texture coordinate emitted for the i-th output vertex
\* of a geometry, i counted from 1
emittedNormal(geometry, i) == SubSeq(geometry.normals.data, 3 * i - 2, 3 * i)
emittedUV(geometry, i) ==
    IF geometry.uvs = Undefined THEN <<>>
    ELSE SubSeq(geometry.uvs.data, 2 * i - 1, 2 * i)

\* every output vertex of the group whose reference names a normal or a
\* texture coordinate of the pools was given that entry
asReferenced(group, geometry, normals, uvs) ==
    \A i \in 1..Len(group.vertexIndices) :
       LET ref == group.refs[i] IN
       /\ inPool(ref.vn, normals, 3)
            => emittedNormal(geometry, i) = poolEntry(normals, 3, ref.vn[1])
       /\ inPool(ref.vt, uvs, 2)
            => emittedUV(geometry, i) = poolEntry(uvs, 2, ref.vt[1])

\* C34: for every output vertex of every group parseOBJ builds, the emitted
\* normal and texture coordinate are the pool entries that face vertex
\* references by its vn and vt indices, also in a group of which only some
\* faces carry vn or vt
C34_AsReferenced ==
    load.pc = "done"
    => LET emitted == withFaces(load.groups) IN
       \A k \in 1..Len(emitted) :
          asReferenced(emitted[k], load.assembly.geometries.entries[k][2],
                       load.normals, load.uvs)

----------------------------------------------------------------------------
(* The frame monitor, frame-monitor.ts 27-292, constants.ts 24-34 *)

REDUCE_FPS == 45
INCREASE_FPS == 58
BAD_FRAME_COUNT == 30
GOOD_FRAME_COUNT == 120

\* config.sampleSize of the monitors, and the reductions they count up to
SampleSize == 1
MaxReductions == 1

\* the milliseconds between two frames: 100, 50 and 25 frames a second
FrameTimes == {10, 20, 40}

qualityOrder == <<"ultra", "high", "medium", "low">>
indexOf(array, x) ==
    IF \E i \in 1..Len(array) : array[i] = x
    THEN (CHOOSE i \in 1..Len(array) : array[i] = x /\ \A j \in 1..(i - 1) : array[j] /= x) - 1
    ELSE -1

\* FrameTimeBuffer, 27-83
NewFrameTimeBuffer(size) == [buffer |-> [i \in 1..size |-> 0], index |-> 0, count |-> 0]

FrameTimeBuffer_push(b, value) ==
    [ buffer |-> [b.buffer EXCEPT ![b.index + 1] = value],
      index |-> (b.index + 1) % Len(b.buffer),
      count |-> IF b.count < Len(b.buffer) THEN b.count + 1 ELSE b.count ]

\* the sum getAverage() divides by count
bufferSum(b) == SeqSum([i \in 1..b.count |-> b.buffer[i]])

\* where metrics.fps = 1000 / (sum / count), or 0 when the average is 0,
\* lies: below REDUCE_FPS, above INCREASE_FPS, or between
fpsZone(b) ==
    LET sum == bufferSum(b) IN
    IF b.count = 0 \/ sum = 0 THEN "bad"
    ELSE IF 1000 * b.count < REDUCE_FPS * sum THEN "bad"
    ELSE IF 1000 * b.count > INCREASE_FPS * sum THEN "good"
    ELSE "neutral"

\* the monitor after its constructor, 85-121; `run` is history: the zone of
\* the last frame and the number of frames of that zone in a row, counted
\* up to GOOD_FRAME_COUNT
NewFrameMonitor ==
    [ frameTimes |-> NewFrameTimeBuffer(SampleSize),
      currentQuality |-> "high",
      badFrameCount |-> 0,
      goodFrameCount |-> 0,
      qualityReductions |-> 0,
      run |-> [zone |-> "none", length |-> 0] ]

\* reduceQuality(), 205-215
reduceQuality(m) ==
    LET currentIndex == indexOf(qualityOrder, m.currentQuality) IN
    IF currentIndex < Len(qualityOrder) - 1
    THEN [m EXCEPT !.currentQuality = qualityOrder[currentIndex + 2],
                   !.qualityReductions = @ + 1]
    ELSE m

\* increaseQuality(), 220-229
increaseQuality(m) ==
    LET currentIndex == indexOf(qualityOrder, m.currentQuality) IN
    IF currentIndex > 0
    THEN [m EXCEPT !.currentQuality = qualityOrder[currentIndex]]
    ELSE m

Max(a, b) == IF a > b THEN a ELSE b

\* adjustQuality(), 176-200, for the zone of metrics.fps
adjustQuality(m, zone) ==
    IF zone = "bad"
    THEN LET counted == [m EXCEPT !.badFrameCount = @ + 1, !.goodFrameCount = 0]
         IN IF counted.badFrameCount >= BAD_FRAME_COUNT
            THEN [reduceQuality(counted) EXCEPT !.badFrameCount = 0]
            ELSE counted
    ELSE IF zone = "good"
    THEN LET counted == [m EXCEPT !.goodFrameCount = @ + 1, !.badFrameCount = 0]
         IN IF counted.goodFrameCount >= GOOD_FRAME_COUNT
            THEN [increaseQuality(counted) EXCEPT !.goodFrameCount = 0]
            ELSE counted
    ELSE [m EXCEPT !.badFrameCount = Max(0, @ - 1),
                   !.goodFrameCount = Max(0, @ - 1)]

\* frameEnd(), 141-171, with config.autoQuality on
frameEnd(m, frameTime) ==
    LET frameTimes == FrameTimeBuffer_push(m.frameTimes, frameTime)
        zone == fpsZone(frameTimes)
        length == IF m.run.zone = zone THEN m.run.length + 1 ELSE 1
    IN [adjustQuality([m EXCEPT !.frameTimes = frameTimes], zone)
          EXCEPT !.run = [zone |-> zone,
                          length |-> IF length > GOOD_FRAME_COUNT
                                     THEN GOOD_FRAME_COUNT ELSE length]]

\* setQuality(quality), 248-252
setQuality(m, quality) ==
    [m EXCEPT !.currentQuality = quality, !.badFrameCount = 0, !.goodFrameCount = 0]

InitMonitor ==
    /\ mem = NewLRU(LRU_SIZE)
    /\ used = [k \in LruKeys |-> 0]
    /\ tick = 0
    /\ db = "null"
    /\ initPromise = 0
    /\ inits = <<>>
    /\ store = <<>>
    /\ now = FirstClock
    /\ tasks = [t \in Slots |-> IdleTask]
    /\ calls = 0
    /\ faults = 0
    /\ lastSet = [h \in Hashes \cup FileHashes |-> "none"]
    /\ load = NewFrameMonitor
    /\ mtlCache = <<>>
    /\ ev = [op |-> "init"]

FrameEnd(frameTime) ==
    /\ frameEnd(load, frameTime).qualityReductions <= MaxReductions
    /\ load' = frameEnd(load, frameTime)
    /\ ev' = [op |-> "frameEnd", frameTime |-> frameTime]
    /\ UNCHANGED <<cacheVars, mtlCache, calls>>

SetQuality(quality) ==
    /\ load' = setQuality(load, quality)
    /\ ev' = [op |-> "setQuality", quality |-> quality]
    /\ UNCHANGED <<cacheVars, mtlCache, calls>>

NextMonitor ==
    \/ \E frameTime \in FrameTimes : FrameEnd(frameTime)
    \/ \E quality \in Range(qualityOrder) : SetQuality(quality)

SpecMonitor == InitMonitor /\ [][NextMonitor]_vars

\* the steps the quality moved down the order ultra, high, medium, low
lowered(before, after) ==
    indexOf(qualityOrder, after.currentQuality) - indexOf(qualityOrder, before.currentQuality)

\* C35: a frame lowers the quality only when it is the last of
\* BAD_FRAME_COUNT frames in a row below REDUCE_FPS, raises it only when it
\* is the last of GOOD_FRAME_COUNT frames in a row above INCREASE_FPS, a
\* frame of the neutral zone ending either run; each change is one step in
\* the order ultra, high, medium, low, and stays within it
C35_OnlyAfterConsecutive ==
    [][ev'.op = "frameEnd"
       => /\ lowered(load, load') \in {-1, 0, 1}
          /\ load'.currentQuality \in Range(qualityOrder)
          /\ lowered(load, load') = 1
               => load'.run.zone = "bad" /\ load'.run.length >= BAD_FRAME_COUNT
          /\ lowered(load, load') = -1
               => load'.run.zone = "good" /\ load'.run.length >= GOOD_FRAME_COUNT]_vars

----------------------------------------------------------------------------
(* The gesture detector, gesture-detector.ts 26-372, constants.ts 86-102 *)

\* the numbers of the detector are fractions n / d in lowest terms (the
\* doubles of the code round what these hold exactly)
RECURSIVE Gcd(_, _)
Gcd(a, b) == IF b = 0 THEN a ELSE Gcd(b, a % b)
Magnitude(n) == IF n < 0 THEN -n ELSE n
Rat(n, d) ==
    IF n = 0 THEN [n |-> 0, d |-> 1]
    ELSE LET g == Gcd(Magnitude(n), d) IN [n |-> n \div g, d |-> d \div g]
RatAdd(a, b) == Rat(a.n * b.d + b.n * a.d, a.d * b.d)
RatSub(a, b) == Rat(a.n * b.d - b.n * a.d, a.d * b.d)
RatMul(a, b) == Rat(a.n * b.n, a.d * b.d)
RatDiv(a, b) == Rat(a.n * b.d, a.d * b.n)
RatAbs(a) == [a EXCEPT !.n = Magnitude(@)]
RatGt(a, b) == a.n * b.d > b.n * a.d

MIN_CONFIDENCE == Rat(7, 10)
SMOOTHING_ALPHA == Rat(2, 10)
PINCH_THRESHOLD == Rat(5, 100)
DEADZONE == Rat(2, 100)
UPDATE_INTERVAL_MS == 33
INACTIVE_TIMEOUT_MS == 1000

\* the sessions: Date.now() when the detector is made, the number of calls
\* of detect(), and the milliseconds between two calls
FirstDetect == 1000
MaxDetects == 4
DetectSteps == {20, 40, 1040}

noPalm == [kind |-> "null"]

initialState ==
    [ lastGesture |-> "none",
      gestureStartTime |-> 0,
      lastUpdate |-> 0,
      lastPalmPosition |-> noPalm,
      lastPinchDistance |-> Rat(0, 1),
      lastSpreadDistance |-> Rat(0, 1),
      smoothedDeltaX |-> Rat(0, 1),
      smoothedDeltaY |-> Rat(0, 1),
      smoothedDeltaZ |-> Rat(0, 1),
      smoothedScale |-> Rat(1, 1) ]

\* a hand as detect() is given it, with what classifyGesture (94-135),
\* getPalmPosition (307-325), getPinchDistance (211-215) and
\* getSpreadDistance (220-224) compute of its landmarks
Hand(handedness, confidence, gesture, x, pinch) ==
    [ handedness |-> handedness, confidence |-> Rat(confidence, 10), gesture |-> gesture,
      palm |-> [x |-> Rat(x, 100), y |-> Rat(50, 100), z |-> Rat(0, 1)],
      pinch |-> Rat(pinch, 100), spread |-> Rat(10, 100) ]

\* an open right hand at the left and at the right of the picture, a right
\* hand pinching, a right hand in no pose, and a left hand seen with little
\* confidence
SeenHands ==
    { Hand("right", 9, "rotate", 10, 10),
      Hand("right", 9, "rotate", 50, 10),
      Hand("right", 9, "zoom", 10, 2),
      Hand("right", 9, "zoom", 10, 4),
      Hand("right", 9, "none", 10, 10),
      Hand("left", 5, "rotate", 50, 10) }

\* the hands of one call: one hand, or the left hand before a right one
HandLists ==
    {<<h>> : h \in SeenHands}
      \cup {<<l, r>> : l \in {h \in SeenHands : h.handedness = "left"},
                      r \in {h \in SeenHands : h.handedness = "right" /\ h.gesture = "rotate"}}

\* ema(prev, current), 330-332
ema(alpha, prev, current) ==
    RatAdd(RatMul(alpha, current), RatMul(RatSub(Rat(1, 1), alpha), prev))

\* Math.abs(raw) > GESTURE.DEADZONE ? raw : 0
deadzone(raw) == IF RatGt(RatAbs(raw), DEADZONE) THEN raw ELSE Rat(0, 1)

\* calculateIntent(gesture, landmarks, timestamp), 239-302: the state it
\* leaves and the intent it returns
calculateIntent(d, hand, timestamp) ==
    LET st == d.state
        palm == hand.palm
        moved == st.lastPalmPosition /= noPalm
        smoothed(prev, axis) ==
            IF moved
            THEN ema(d.smoothingAlpha, prev,
                     deadzone(RatSub(palm[axis], st.lastPalmPosition[axis])))
            ELSE prev
        scaled == hand.gesture \in {"zoom", "explode"}
        distance == IF hand.gesture = "zoom" THEN hand.pinch ELSE hand.spread
        last == IF hand.gesture = "zoom" THEN st.lastPinchDistance ELSE st.lastSpreadDistance
        smoothedScale == IF scaled /\ RatGt(last, Rat(0, 1))
                         THEN ema(d.smoothingAlpha, st.smoothedScale, RatDiv(distance, last))
                         ELSE st.smoothedScale
        scale == IF scaled /\ RatGt(last, Rat(0, 1)) THEN smoothedScale ELSE Rat(1, 1)
        after == [st EXCEPT
                    !.smoothedDeltaX = smoothed(@, "x"),
                    !.smoothedDeltaY = smoothed(@, "y"),
                    !.smoothedDeltaZ = smoothed(@, "z"),
                    !.smoothedScale = smoothedScale,
                    !.lastPinchDistance = IF hand.gesture = "zoom" THEN distance ELSE @,
                    !.lastSpreadDistance = IF hand.gesture = "explode" THEN distance ELSE @,
                    !.lastPalmPosition = palm,
                    !.lastGesture = hand.gesture,
                    !.gestureStartTime = IF @ /= 0 THEN @ ELSE timestamp]
    IN [ state |-> after,
         intent |-> [ type |-> hand.gesture,
                      deltaX |-> after.smoothedDeltaX,
                      deltaY |-> after.smoothedDeltaY,
                      deltaZ |-> after.smoothedDeltaZ,
                      scale |-> scale, confidence |-> 1, timestamp |-> timestamp ] ]

\* handleNoHands(now), 337-342, reset() being 355-357
handleNoHands(st, timestamp) ==
    IF timestamp - st.lastUpdate > INACTIVE_TIMEOUT_MS THEN initialState ELSE st

\* handleNoGesture(now), 347-350
handleNoGesture(st) == [st EXCEPT !.lastGesture = "none", !.gestureStartTime = 0]

noIntent == [type |-> "null"]

\* hands.find(h => h.handedness === 'right') || hands[0]
primaryOf(hands) ==
    LET right == SelectSeq(hands, LAMBDA h : h.handedness = "right")
    IN IF right /= <<>> THEN Head(right) ELSE Head(hands)

\* detect(hands), 54-89, called at the time `timestamp`: the state it leaves
\* and what it returns
detect(d, hands, timestamp) ==
    IF timestamp - d.state.lastUpdate < UPDATE_INTERVAL_MS
    THEN [state |-> d.state, intent |-> noIntent]
    ELSE LET st == [d.state EXCEPT !.lastUpdate = timestamp] IN
         IF Len(hands) = 0
         THEN [state |-> handleNoHands(st, timestamp), intent |-> noIntent]
         ELSE IF RatGt(MIN_CONFIDENCE, primaryOf(hands).confidence)
         THEN [state |-> st, intent |-> noIntent]
         ELSE IF primaryOf(hands).gesture = "none"
         THEN [state |-> handleNoGesture(st), intent |-> noIntent]
         ELSE calculateIntent([d EXCEPT !.state = st], primaryOf(hands), timestamp)

\* the detector after its constructor, 43-49, at the time it is made;
\* `detects` counts the calls of detect(), and `absent` is history: the times of the first and of the latest call in a
\* row that looked at the hands and found none
NewGestureDetector ==
    [ state |-> initialState,
      smoothingAlpha |-> SMOOTHING_ALPHA,
      clock |-> FirstDetect,
      detects |-> 0,
      absent |-> [since |-> 0, seen |-> 0] ]

InitDetector ==
    /\ mem = NewLRU(LRU_SIZE)
    /\ used = [k \in LruKeys |-> 0]
    /\ tick = 0
    /\ db = "null"
    /\ initPromise = 0
    /\ inits = <<>>
    /\ store = <<>>
    /\ now = FirstClock
    /\ tasks = [t \in Slots |-> IdleTask]
    /\ calls = 0
    /\ faults = 0
    /\ lastSet = [h \in Hashes \cup FileHashes |-> "none"]
    /\ load = NewGestureDetector
    /\ mtlCache = <<>>
    /\ ev = [op |-> "init"]

\* detect(hands) is called, `step` milliseconds after the call before it
DetectCall(hands, step) ==
    /\ load.detects < MaxDetects
    /\ LET timestamp == load.clock + step
           limited == timestamp - load.state.lastUpdate < UPDATE_INTERVAL_MS
           out == detect(load, hands, timestamp)
       IN /\ load' = [load EXCEPT
                        !.state = out.state,
                        !.clock = timestamp,
                        !.detects = @ + 1,
                        !.absent = IF limited THEN @
                                   ELSE IF Len(hands) > 0 THEN [since |-> 0, seen |-> 0]
                                   ELSE IF @.since = 0
                                   THEN [since |-> timestamp, seen |-> timestamp]
                                   ELSE [@ EXCEPT !.seen = timestamp]]
          /\ ev' = [op |-> "detect", hands |-> hands, intent |-> out.intent,
                    limited |-> limited]
    /\ UNCHANGED <<cacheVars, mtlCache, calls>>

DetectNoHands(step) == DetectCall(<<>>, step)
DetectHands(hands, step) == DetectCall(hands, step)

NextDetector ==
    \/ \E step \in DetectSteps : DetectNoHands(step)
    \/ \E hands \in HandLists, step \in DetectSteps : DetectHands(hands, step)

SpecDetector == InitDetector /\ [][NextDetector]_vars

\* the detector has seen no hands for longer than INACTIVE_TIMEOUT_MS
inactive(d) == d.absent.since /= 0 /\ d.absent.seen - d.absent.since > INACTIVE_TIMEOUT_MS

\* C36: when the detector has seen no hands for longer than
\* INACTIVE_TIMEOUT_MS, the first intent after a hand reappears carries zero
\* deltas
C36_ZeroDeltasAfterInactivity ==
    [][ev'.op = "detect" /\ ~ev'.limited /\ ev'.intent /= noIntent /\ inactive(load)
       => /\ ev'.intent.deltaX = Rat(0, 1)
          /\ ev'.intent.deltaY = Rat(0, 1)
          /\ ev'.intent.deltaZ = Rat(0, 1)]_vars

----------------------------------------------------------------------------
(* The gesture controller, gesture-controller.ts 34-198 *)

\* the calls of start() and the animation frames requested in a session
MaxStarts == 3
MaxFrames == 3

\* now - this.lastFpsUpdate when a frame has been processed, in milliseconds
Elapsed == {500, 2000}

\* the controller after its constructor, 34-58. `pending` holds the
\* animation frames requested and neither run nor cancelled, `nextId` is the
\* id the next request returns, `inflight` counts the hands.send() promises
\* that have not settled; `stopped` and `starts` are history: stop() was
\* called and start() has not been called since, and the calls of start()
NewGestureController ==
    [ video |-> "null", hands |-> "null",
      state |-> [enabled |-> FALSE, active |-> FALSE, fps |-> 0,
                 cameraAvailable |-> FALSE, error |-> "null"],
      frameCount |-> 0,
      processingFrame |-> FALSE,
      animationFrameId |-> 0,
      pending |-> {}, nextId |-> 1, inflight |-> 0,
      stopped |-> FALSE, starts |-> 0 ]

\* initialize(), 63-125: the camera and MediaPipe were set up, or a step
\* after the video element was created threw
initialize(c, ok) ==
    IF c.hands /= "null" THEN c
    ELSE IF ok
    THEN [c EXCEPT !.video = "video", !.hands = "hands",
                   !.state.cameraAvailable = TRUE, !.state.error = "null"]
    ELSE [c EXCEPT !.video = "video",
                   !.state.cameraAvailable = FALSE, !.state.error = "message"]

\* this.animationFrameId = requestAnimationFrame(() => this.processFrame())
requestAnimationFrame(c) ==
    [c EXCEPT !.animationFrameId = c.nextId,
              !.pending = @ \cup {c.nextId},
              !.nextId = @ + 1]

\* a processFrame() without the test of processingFrame: C37 must tell it
\* from the code
overlapping_Never(c) == FALSE

\* processFrame(), 170: if (this.processingFrame)
overlapping(c) == c.processingFrame

\* processFrame(), 164-178, up to its await
processFrame(c) ==
    IF ~c.state.enabled \/ c.hands = "null" \/ c.video = "null" THEN c
    ELSE IF overlapping(c) THEN requestAnimationFrame(c)
    ELSE [c EXCEPT !.processingFrame = TRUE, !.inflight = @ + 1]

\* Math.round of a quotient of two positive numbers
RoundDiv(a, b) == (2 * a + b) \div (2 * b)

\* processFrame(), 179-198: hands.send() settled, resolved or rejected
afterSend(c, elapsed) ==
    LET frameCount == c.frameCount + 1
        counted == IF elapsed > 1000
                   THEN [c EXCEPT !.state.fps = RoundDiv(frameCount * 1000, elapsed),
                                  !.frameCount = 0]
                   ELSE [c EXCEPT !.frameCount = frameCount]
        done == [counted EXCEPT !.processingFrame = FALSE, !.inflight = @ - 1]
    IN IF done.state.enabled THEN requestAnimationFrame(done) ELSE done

\* start(), 139-147
start(c) ==
    IF c.hands = "null" \/ c.video = "null" THEN c
    ELSE processFrame([c EXCEPT !.state.enabled = TRUE, !.state.active = TRUE])

\* stop(), 152-159
stop(c) ==
    LET off == [c EXCEPT !.state.enabled = FALSE, !.state.active = FALSE]
    IN IF c.animationFrameId /= 0
       THEN [off EXCEPT !.pending = @ \ {c.animationFrameId}, !.animationFrameId = 0]
       ELSE off

InitController ==
    /\ mem = NewLRU(LRU_SIZE)
    /\ used = [k \in LruKeys |-> 0]
    /\ tick = 0
    /\ db = "null"
    /\ initPromise = 0
    /\ inits = <<>>
    /\ store = <<>>
    /\ now = FirstClock
    /\ tasks = [t \in Slots |-> IdleTask]
    /\ calls = 0
    /\ faults = 0
    /\ lastSet = [h \in Hashes \cup FileHashes |-> "none"]
    /\ load = NewGestureController
    /\ mtlCache = <<>>
    /\ ev = [op |-> "init"]

\* a step of the controller
Controller(op, after) ==
    /\ after.nextId <= MaxFrames + 1
    /\ load' = after
    /\ ev' = [op |-> op, sent |-> after.inflight > load.inflight]
    /\ UNCHANGED <<cacheVars, mtlCache, calls>>

Initialize(ok) ==
    /\ load.hands = "null"
    /\ Controller("initialize", initialize(load, ok))

Start ==
    /\ load.starts < MaxStarts
    /\ Controller("start", [start(load) EXCEPT !.starts = @ + 1, !.stopped = FALSE])

Stop == Controller("stop", [stop(load) EXCEPT !.stopped = TRUE])

\* the browser runs the callback of a requested animation frame
AnimationFrame(id) ==
    /\ id \in load.pending
    /\ Controller("frame", processFrame([load EXCEPT !.pending = @ \ {id}]))

\* a hands.send() settles and the processFrame() that awaits it goes on
SendSettled(elapsed) ==
    /\ load.inflight > 0
    /\ Controller("settled", afterSend(load, elapsed))

NextController ==
    \/ \E ok \in BOOLEAN : Initialize(ok)
    \/ Start
    \/ Stop
    \/ \E id \in 1..MaxFrames : AnimationFrame(id)
    \/ \E elapsed \in Elapsed : SendSettled(elapsed)

SpecController == InitController /\ [][NextController]_vars

\* C37: at most one hands.send() is in flight at any time, whatever the
\* order of start(), stop(), repeated start() and the animation frames; and
\* once stop() has been called no send is issued until start() is called
\* again
C37_OneSendInFlight ==
    [][/\ load'.inflight <= 1
       /\ ev'.sent => ev'.op = "start" \/ ~load.stopped]_vars

\* after start() was called twice and stop() once, an animation frame that
\* had been requested runs while a send is in flight, and sends nothing
C37_Witness ==
    /\ ev.op = "frame"
    /\ ~ev.sent
    /\ load.stopped
    /\ load.starts >= 2
    /\ load.inflight = 1

====
